---- MODULE Spec2Model ----
(***************************************************************************)
(* Job queue, worker pool, cancel endpoint and job handlers of the         *)
(* lorebook server (server/src/worker.py, db/background_jobs.py,           *)
(* db/database.py, controllers/background_jobs.py,                         *)
(* services/background_jobs.py, main.py).                                  *)
(*                                                                         *)
(* Spec        the durable queue: startup, worker loop, handlers, cancel   *)
(* SpecRunLive the same under the fairness of the event loop               *)
(* SpecDispatch the same with every kind of job the controllers enqueue    *)
(* SpecClaim   concurrent callers of get_and_lock_pending_background_job   *)
(* SpecEntries one process_project_entries job in detail                   *)
(* SpecLimiter concurrent callers of wait_for_rate_limit                   *)
(* SpecCalls   the same with the LLM calls that bypass the limiter         *)
(* SpecRecover startup recovery over the tables a process can find         *)
(* SpecProject a sequence of job handlers run on one project               *)
(* SpecCrawl   discover_and_crawl_sources and rescan_links jobs run on one *)
(*             project                                                     *)
(* SpecCrawlJob one such job on the tables earlier jobs left               *)
(* SpecSse     subscribers and publishers of project events                *)
(* SpecWalk    the pagination walk over the pages of one source            *)
(***************************************************************************)
EXTENDS Integers, Sequences, FiniteSets, TLC

VARIABLES
    backend,        \* "postgres" | "sqlite": the AsyncDB implementation in use
    jobs,           \* "BackgroundJob" table: job id -> [task_name, status]
    wpc,            \* run_worker: position in the loop body
    wjob,           \* run_worker: the job the current iteration holds (0: none)
    tasks,          \* handler tasks created so far: <<[job, pc, flag]>>
    active_tasks,   \* run_worker.active_tasks (indices into tasks)
    recovered,      \* the on_startup hook recover_stale_datas has run
    cancelReq,      \* the cancel_job request in flight: [job, read]
    callers,        \* SpecClaim: concurrent claimers, caller -> [pc, sel, ret, got]
    \* SpecEntries: one process_project_entries job (job id 1) and its project
    links,          \* "Link" table of the project: link id -> status
    pstatus,        \* Project.status
    hpc,            \* process_project_entries: position of the handler
    pending_links,  \* the links the handler picked up
    ltask,          \* process_with_limiter tasks: link id -> position
    lres,           \* result of each link task
    flag,           \* cancellation_event
    batch_results,  \* results harvested and not yet written
    totals,         \* total_processed, total_created, total_skipped, total_failed
    apilog,         \* "ApiRequestLog" rows per link: [ok, err]
    entries,        \* "LorebookEntry" rows per link
    \* SpecLimiter: services/rate_limiter.py
    clock,          \* datetime.now(), in ticks
    tracker,        \* _rate_limit_tracker: project -> list of timestamps
    rlock,          \* _rate_limit_locks: project -> holder (0: free)
    rl,             \* callers of wait_for_rate_limit: [pc, project, until]
    admitted,       \* history: project -> admission times of the last minute
    \* SpecProject: the "Link" rows of the project carry a url
    link_url,       \* link id -> url (0: no row)
    \* SpecCrawl: discover_and_crawl_sources
    sources,        \* "ProjectSource" rows of the project, by url
    hier,           \* "ProjectSourceHierarchy": <<parent, child>> -> rows
    cpc,            \* discover_and_crawl_sources: "idle" | "run"
    cqueue,         \* queue: <<source, depth>> still to crawl
    visited,        \* visited_source_urls
    new_links,      \* all_new_links_this_job
    existing_links, \* all_existing_links_found_again
    cpage,          \* the page crawled last: [cat, con, children]
    ckind,          \* task of the crawl job: "discover" | "rescan"
    cstatus,        \* BackgroundJob.status of the crawl job
    depth_limit,    \* ProjectSource.max_crawl_depth, the same for all sources
    selectors,      \* sources with a stored link_extraction_selector
    clog,           \* "ApiRequestLog" rows of the crawl job, one per LLM call
    cdone,          \* <<source, depth>> processed and committed by the job
    croots,         \* the sources the job was started on
    \* SpecEntries: history
    late_calls,     \* links whose LLM call began or returned after the request
    \* SpecSse: controllers/sse.py
    sse_clients,    \* sse_clients: project -> the queues (subscribers) of it
    squeue,         \* the asyncio.Queue of each subscriber
    sub,            \* subscriber -> [pc, project, since]
    received,       \* the events event_generator has yielded to the subscriber
    published,      \* project_id of every send_event_to_project call, in order
    \* SpecWalk: the pagination walk of _crawl_and_discover
    next_page,      \* the site: page -> the page its next link names (0: none)
    max_pages_to_crawl, \* ProjectSource.max_pages_to_crawl
    current_url,    \* current_url (0: None)
    pages_crawled,  \* pages_crawled
    fetched,        \* scraper.get_content calls of the walk, in order
    \* SpecCalls: LLM calls of handlers that do not pass the rate limiter
    gen_calls,      \* project -> times of provider.generate without admission
    \* SpecBatch: one call of _process_db_batch, statement by statement
    bpc,            \* "idle", "write", "done" or "failed" (the call raised)
    bseq,           \* batch_results: sequence of [link, res]
    bpos,           \* [i, stmt]: the statement the call executes next
    btx,            \* PostgreSQL: the rows as the open transaction sees them
    \* SpecHandlerJob, SpecHandler: process_project_entries and its job row
    prow,           \* [total_items, processed_items, progress] of the job row
    pollers,        \* runs whose poll_for_cancellation task is alive
    run             \* number of the process_project_entries job, 1..MaxRuns

evars == <<links, pstatus, hpc, pending_links, ltask, lres, flag,
           batch_results, totals, apilog, entries>>

qvars == <<wpc, wjob, tasks, active_tasks, recovered, callers>>

rvars == <<clock, tracker, rlock, rl, admitted>>

\* the variables of the service specifications
pvars == <<link_url>>

cvars == <<sources, hier, cpc, cqueue, visited, new_links, existing_links,
           cpage, ckind, cstatus, depth_limit, selectors, clog, cdone,
           croots>>

svars == <<rvars, pvars, cvars>>

ssevars == <<sse_clients, squeue, sub, received, published>>

wkvars == <<next_page, max_pages_to_crawl, current_url, pages_crawled,
            fetched>>

\* the variables only SpecSse, SpecWalk, SpecCalls and the history of
\* SpecEntries use
bvars == <<bpc, bseq, bpos, btx>>

\* the variables of the specifications added last
hvars == <<prow, pollers, run>>

yvars == <<bvars, hvars>>

xvars == <<ssevars, wkvars, gen_calls, late_calls, yvars>>

vars == <<backend, jobs, wpc, wjob, tasks, active_tasks, recovered, cancelReq,
          callers, evars, svars, xvars>>

----------------------------------------------------------------------------
(* Bounds *)
MaxJobs == 3
MaxTasks == 2
MaxStaleJobs == 1
NumCallers == 2

MaxLinks == 3
\* DB_WRITE_BATCH_SIZE (services/background_jobs.py:83) and
\* CONCURRENT_REQUESTS (services/rate_limiter.py:25) are 10 in the source;
\* they are scaled down with the number of links
DB_WRITE_BATCH_SIZE == 2
CONCURRENT_REQUESTS == 2

JobIds == 1..MaxJobs
LinkIds == 1..MaxLinks
NoTotals == [processed |-> 0, created |-> 0, skipped |-> 0, failed |-> 0]
NoLog == [ok |-> 0, err |-> 0]
Callers == 1..NumCallers

\* rate limiter: the minute is Window ticks long
Window == 2
MaxTime == 3
NumProjects == 2
NumWaiters == 2
Projects == 1..NumProjects

\* urls a confirm_links payload can name
MaxUrls == 3
Urls == 1..MaxUrls

\* crawl: the urls of the site, and ProjectSource.max_crawl_depth (1 by
\* default, db/sources.py:25; category links are followed only when a
\* larger depth is configured)
MaxPages == 2
max_crawl_depth == 2
Pages == 1..MaxPages
Waiters == 1..NumWaiters

\* SSE: subscribers, and send_event_to_project calls in one run
NumSubscribers == 2
MaxEvents == 3
Subscribers == 1..NumSubscribers

\* pagination walk: the largest ProjectSource.max_pages_to_crawl
MaxPagesToCrawl == 3

\* LLM calls made without admission in one run
MaxGenCalls == 2
MaxRuns == 2

\* length of job.payload.source_ids
MaxPayload == 2

----------------------------------------------------------------------------
(* db/background_jobs.py *)

JobStatus == {"pending", "in_progress", "completed", "failed", "cancelling",
              "canceled"}

\* the task kinds process_background_job dispatches on that are modelled here
TaskName == {"generate_search_params", "process_project_entries"}

\* the kinds the controllers enqueue: those above and, of the others of the
\* enum, generate_selector (controllers/background_jobs.py:98)
EnqueuedKinds == TaskName \cup {"generate_selector"}

PARALLEL_LIMITS == [k \in EnqueuedKinds |-> 1]

Terminal == {"completed", "failed", "canceled"}

NoJob == [task_name |-> "none", status |-> "absent"]

Exists(js, j) == js[j].status # "absent"

\* rows are created in id order, so created_at order is id order
PendingIds(js) == {j \in JobIds : js[j].status = "pending"}

Min(S) == CHOOSE x \in S : \A y \in S : x <= y

\* SELECT id FROM "BackgroundJob" WHERE status = 'pending'
\*   ORDER BY created_at LIMIT 1          (0: no row)
OldestPending(js) == IF PendingIds(js) = {} THEN 0 ELSE Min(PendingIds(js))

SetStatus(js, j, s) == [js EXCEPT ![j].status = s]

\* a count that leaves out the job just claimed
count_in_progress_excluding_claimed(js, k) ==
    Cardinality({j \in JobIds : js[j].task_name = k
                                /\ js[j].status = "in_progress"}) - 1

count_in_progress_background_jobs_by_task_name(js, k) ==
    Cardinality({j \in JobIds : js[j].task_name = k
                                /\ js[j].status = "in_progress"})

\* UPDATE "BackgroundJob" SET status = ... WHERE id = job_id
update_background_job(js, j, s) == SetStatus(js, j, s)

\* PostgresDB.get_and_lock_pending_background_job: one statement,
\* SELECT ... FOR UPDATE SKIP LOCKED + UPDATE ... RETURNING *
PgClaimJobs(js) ==
    IF OldestPending(js) = 0 THEN js
    ELSE SetStatus(js, OldestPending(js), "in_progress")

\* SQLiteDB.get_and_lock_pending_background_job, second statement:
\* UPDATE "BackgroundJob" SET status = 'in_progress' WHERE id = job_id
SqliteClaimUpdate(js, j) == SetStatus(js, j, "in_progress")

\* main.py recover_stale_datas -> reset_in_progress_jobs_to_pending
reset_in_progress_jobs_to_pending(js) ==
    [j \in JobIds |-> IF js[j].status = "in_progress"
                      THEN [js[j] EXCEPT !.status = "pending"]
                      ELSE js[j]]

----------------------------------------------------------------------------
(* services/background_jobs.py: what each handler does to its job row *)

\* handlers that start poll_for_cancellation (discover_and_crawl_sources
\* and rescan_links do as well; generate_search_params and confirm_links do
\* not)
Polls(k) == k = "process_project_entries"

\* the status the handler's last update_job_with_notification writes
FinalStatus(k, cancelled) == IF Polls(k) /\ cancelled THEN "canceled" ELSE "completed"

\* process_background_job lines 967-977: the kinds the if/elif chain has a
\* branch for
Dispatched(k) ==
    k \in {"discover_and_crawl_sources", "rescan_links", "confirm_links",
           "process_project_entries", "generate_search_params"}

NewTask(j) == [job |-> j, pc |-> "run", flag |-> FALSE]

TaskIds == 1..Len(tasks)

KindOf(t) == jobs[tasks[t].job].task_name

----------------------------------------------------------------------------
(* worker.py run_worker *)

max_workers == Cardinality(TaskName)   \* sum(PARALLEL_LIMITS.values())

DoneTasks == {t \in active_tasks : tasks[t].pc = "done"}

\* lines 30-53 on PostgreSQL: reap, then claim in one statement
WorkerClaimPg ==
    /\ backend = "postgres"
    /\ wpc = "loop"
    /\ Len(tasks) < MaxTasks
    /\ active_tasks' = active_tasks \ DoneTasks
    /\ IF Cardinality(active_tasks') < max_workers /\ OldestPending(jobs) # 0
       THEN /\ wjob' = OldestPending(jobs)
            /\ jobs' = PgClaimJobs(jobs)
            /\ wpc' = "claimed"
       ELSE UNCHANGED <<wjob, jobs, wpc>>
    /\ UNCHANGED <<backend, xvars, svars, tasks, recovered, cancelReq, callers,
                   evars>>

\* lines 30-53 on SQLite: reap, then the SELECT of the claim
WorkerSelectSqlite ==
    /\ backend = "sqlite"
    /\ wpc = "loop"
    /\ Len(tasks) < MaxTasks
    /\ active_tasks' = active_tasks \ DoneTasks
    /\ IF Cardinality(active_tasks') < max_workers /\ OldestPending(jobs) # 0
       THEN /\ wjob' = OldestPending(jobs)
            /\ wpc' = "selected"
       ELSE UNCHANGED <<wjob, wpc>>
    /\ UNCHANGED <<backend, xvars, svars, jobs, tasks, recovered, cancelReq, callers,
                   evars>>

\* SQLite: the UPDATE of the claim (the row is then fetched and returned)
WorkerUpdateSqlite ==
    /\ wpc = "selected"
    /\ jobs' = SqliteClaimUpdate(jobs, wjob)
    /\ wpc' = "claimed"
    /\ UNCHANGED <<backend, xvars, svars, wjob, tasks, active_tasks, recovered, cancelReq,
                   callers,
                   evars>>

\* lines 55-70: count the in_progress jobs of the kind, then submit or not
WorkerCount ==
    /\ wpc = "claimed"
    /\ LET k == jobs[wjob].task_name
           n == count_in_progress_background_jobs_by_task_name(jobs, k)
       IN IF n <= PARALLEL_LIMITS[k]
          THEN /\ tasks' = Append(tasks, NewTask(wjob))
               /\ active_tasks' = active_tasks \cup {Len(tasks) + 1}
               /\ wpc' = "loop"
               /\ wjob' = 0
          ELSE /\ wpc' = "yield"
               /\ UNCHANGED <<tasks, active_tasks, wjob>>
    /\ UNCHANGED <<backend, xvars, svars, jobs, recovered, cancelReq, callers,
                   evars>>

\* lines 71-82: re-queue the claimed job
WorkerYield ==
    /\ wpc = "yield"
    /\ jobs' = update_background_job(jobs, wjob, "pending")
    /\ wpc' = "loop"
    /\ wjob' = 0
    /\ UNCHANGED <<backend, xvars, svars, tasks, active_tasks, recovered, cancelReq, callers,
                   evars>>

----------------------------------------------------------------------------
(* services/background_jobs.py: handler tasks *)

\* poll_for_cancellation: one read of the job row
Poll(t) ==
    /\ tasks[t].pc = "run"
    /\ Polls(KindOf(t))
    /\ ~tasks[t].flag
    /\ jobs[tasks[t].job].status = "cancelling"
    /\ tasks' = [tasks EXCEPT ![t].flag = TRUE]
    /\ UNCHANGED <<backend, xvars, svars, jobs, wpc, wjob, active_tasks, recovered,
                   cancelReq, callers,
                   evars>>

\* the handler reaches its last job update
HandlerFinish(t) ==
    /\ tasks[t].pc = "run"
    /\ Dispatched(KindOf(t))
    /\ jobs' = update_background_job(jobs, tasks[t].job,
                                     FinalStatus(KindOf(t), tasks[t].flag))
    /\ tasks' = [tasks EXCEPT ![t].pc = "done"]
    /\ UNCHANGED <<backend, xvars, svars, wpc, wjob, active_tasks, recovered, cancelReq,
                   callers,
                   evars>>

\* process_background_job, except clause: an exception leaves the handler
\* (an error response of the provider, a scrape error, a database error) and
\* the wrapper writes failed
HandlerFail(t) ==
    /\ tasks[t].pc = "run"
    /\ Dispatched(KindOf(t))
    /\ jobs' = update_background_job(jobs, tasks[t].job, "failed")
    /\ tasks' = [tasks EXCEPT ![t].pc = "done"]
    /\ UNCHANGED <<backend, xvars, svars, wpc, wjob, active_tasks, recovered, cancelReq,
                   callers,
                   evars>>

\* process_background_job lines 967-977: no branch matches the kind of the
\* job, the function returns and has not written the job row
HandlerReturn(t) ==
    /\ tasks[t].pc = "run"
    /\ ~Dispatched(KindOf(t))
    /\ tasks' = [tasks EXCEPT ![t].pc = "done"]
    /\ UNCHANGED <<backend, xvars, svars, jobs, wpc, wjob, active_tasks,
                   recovered, cancelReq, callers, evars>>

----------------------------------------------------------------------------
(* controllers/background_jobs.py and main.py *)

NoCancel == [job |-> 0, read |-> "none"]

NextId(js) == Cardinality({j \in JobIds : Exists(js, j)}) + 1

\* POST /jobs/<kind>: create_background_job
CreateJob(k) ==
    /\ recovered
    /\ NextId(jobs) <= MaxJobs
    /\ jobs' = [jobs EXCEPT ![NextId(jobs)] =
                    [task_name |-> k, status |-> "pending"]]
    /\ UNCHANGED <<backend, xvars, svars, wpc, wjob, tasks, active_tasks, recovered,
                   cancelReq, callers,
                   evars>>

\* cancel_job lines 62-70: read the job, 400 if terminal
CancelRead(j) ==
    /\ recovered
    /\ Exists(jobs, j)
    /\ cancelReq = NoCancel
    /\ jobs[j].status \notin Terminal
    /\ cancelReq' = [job |-> j, read |-> jobs[j].status]
    /\ UNCHANGED <<backend, xvars, svars, jobs, wpc, wjob, tasks, active_tasks, recovered,
                   callers,
                   evars>>

\* the status cancel_job writes for the status it read
CancelTarget(read) == IF read = "in_progress" THEN "cancelling" ELSE "canceled"

\* cancel_job lines 72-79
CancelWrite(j) ==
    /\ cancelReq.job = j
    /\ jobs' = update_background_job(jobs, j, CancelTarget(cancelReq.read))
    /\ cancelReq' = NoCancel
    /\ UNCHANGED <<backend, xvars, svars, wpc, wjob, tasks, active_tasks, recovered,
                   callers,
                   evars>>

\* db/links.py reset_processing_links_to_pending:
\* UPDATE "Link" SET status = 'pending' WHERE status = 'processing'
reset_processing_links_to_pending(ls) ==
    [l \in DOMAIN ls |-> IF ls[l] = "processing" THEN "pending" ELSE ls[l]]

\* main.py: the on_startup hook, run by server.serve() after the worker
\* thread has been started
recover_stale_datas ==
    /\ ~recovered
    /\ jobs' = reset_in_progress_jobs_to_pending(jobs)
    /\ links' = reset_processing_links_to_pending(links)
    /\ recovered' = TRUE
    /\ UNCHANGED <<backend, xvars, svars, wpc, wjob, tasks, active_tasks, cancelReq, callers,
                   pstatus, hpc, pending_links, ltask, lres, flag,
                   batch_results, totals, apilog, entries>>

----------------------------------------------------------------------------
\* SpecEntries state while no process_project_entries job is modelled
EntriesIdle ==
    /\ links = [l \in LinkIds |-> "absent"]
    /\ pstatus = "links_extracted"
    /\ hpc = "idle"
    /\ pending_links = {}
    /\ ltask = [l \in LinkIds |-> "none"]
    /\ lres = [l \in LinkIds |-> "none"]
    /\ flag = FALSE
    /\ batch_results = {}
    /\ totals = NoTotals
    /\ apilog = [l \in LinkIds |-> NoLog]
    /\ entries = [l \in LinkIds |-> 0]

\* SpecLimiter state while no wait_for_rate_limit caller is modelled
LimiterIdle ==
    /\ clock = 0
    /\ tracker = [p \in Projects |-> <<>>]
    /\ rlock = [p \in Projects |-> 0]
    /\ rl = [c \in Waiters |-> [pc |-> "idle", project |-> 0, until |-> 0]]
    /\ admitted = [p \in Projects |-> <<>>]

NoPage == [cat |-> {}, con |-> {}, children |-> {}]

\* SpecCrawl state while no crawl is modelled
CrawlIdle ==
    /\ sources = {}
    /\ hier = [e \in Pages \X Pages |-> 0]
    /\ cpc = "idle"
    /\ cqueue = <<>>
    /\ visited = {}
    /\ new_links = {}
    /\ existing_links = {}
    /\ cpage = NoPage
    /\ ckind = "none"
    /\ cstatus = "none"
    /\ depth_limit = max_crawl_depth
    /\ selectors = {}
    /\ clog = 0
    /\ cdone = {}
    /\ croots = {}

NoSubscriber == [pc |-> "none", project |-> 0, since |-> 0]

\* SpecSse state while no subscriber and no publisher is modelled
SseIdle ==
    /\ sse_clients = [p \in Projects |-> {}]
    /\ squeue = [c \in Subscribers |-> <<>>]
    /\ sub = [c \in Subscribers |-> NoSubscriber]
    /\ received = [c \in Subscribers |-> <<>>]
    /\ published = <<>>

\* SpecWalk state while no walk is modelled
WalkIdle ==
    /\ next_page = [u \in Urls |-> 0]
    /\ max_pages_to_crawl = 1
    /\ current_url = 0
    /\ pages_crawled = 0
    /\ fetched = <<>>

NoTx == [links |-> <<>>, entries |-> <<>>]

\* SpecBatch state while no call of _process_db_batch is modelled
BatchIdle ==
    /\ bpc = "idle"
    /\ bseq = <<>>
    /\ bpos = [i |-> 0, stmt |-> "none"]
    /\ btx = NoTx

\* SpecHandler state while no handler with its job row is modelled
HandlerIdle ==
    /\ prow = [total_items |-> 0, processed_items |-> 0, progress |-> 0]
    /\ pollers = {}
    /\ run = 1

ExtrasIdle ==
    /\ SseIdle
    /\ WalkIdle
    /\ gen_calls = [p \in Projects |-> <<>>]
    /\ BatchIdle
    /\ HandlerIdle

ServicesIdle ==
    /\ LimiterIdle
    /\ link_url = [l \in LinkIds |-> 0]
    /\ CrawlIdle

\* jobs a previous process left behind: a prefix of the ids, each pending or
\* in_progress
StaleTables ==
    {js \in [JobIds -> [task_name : TaskName \cup {"none"},
                        status : {"pending", "in_progress", "absent"}]] :
        /\ \A j \in JobIds : (js[j].status = "absent") <=> (js[j].task_name = "none")
        /\ \A j \in JobIds : js[j].status # "absent" => j <= MaxStaleJobs}

NoCallers == [c \in Callers |-> [pc |-> "idle", sel |-> 0, ret |-> 0, got |-> {}]]

Init ==
    /\ ExtrasIdle
    /\ late_calls = {}
    /\ backend \in {"postgres", "sqlite"}
    /\ jobs \in StaleTables
    /\ wpc = "loop"
    /\ wjob = 0
    /\ tasks = <<>>
    /\ active_tasks = {}
    /\ recovered = FALSE
    /\ cancelReq = NoCancel
    /\ callers = NoCallers
    /\ EntriesIdle
    /\ ServicesIdle

Next ==
    \/ WorkerClaimPg
    \/ WorkerSelectSqlite
    \/ WorkerUpdateSqlite
    \/ WorkerCount
    \/ WorkerYield
    \/ \E t \in TaskIds : Poll(t)
    \/ \E t \in TaskIds : HandlerFinish(t)
    \/ \E t \in TaskIds : HandlerFail(t)
    \/ \E k \in TaskName : CreateJob(k)
    \/ \E j \in JobIds : CancelRead(j)
    \/ \E j \in JobIds : CancelWrite(j)
    \/ recover_stale_datas

Spec == Init /\ [][Next]_vars

\* the queue once startup has completed: recover_stale_datas has run before
\* the first claim, the tables hold no in_progress job
InitRun ==
    /\ ExtrasIdle
    /\ late_calls = {}
    /\ backend \in {"postgres", "sqlite"}
    /\ jobs \in {js \in StaleTables : \A j \in JobIds : js[j].status # "in_progress"}
    /\ wpc = "loop"
    /\ wjob = 0
    /\ tasks = <<>>
    /\ active_tasks = {}
    /\ recovered = TRUE
    /\ cancelReq = NoCancel
    /\ callers = NoCallers
    /\ EntriesIdle
    /\ ServicesIdle

NextRun ==
    \/ WorkerClaimPg
    \/ WorkerSelectSqlite
    \/ WorkerUpdateSqlite
    \/ WorkerCount
    \/ WorkerYield
    \/ \E t \in TaskIds : Poll(t)
    \/ \E t \in TaskIds : HandlerFinish(t)
    \/ \E t \in TaskIds : HandlerFail(t)
    \/ \E k \in TaskName : CreateJob(k)
    \/ \E j \in JobIds : CancelRead(j)
    \/ \E j \in JobIds : CancelWrite(j)

SpecRun == InitRun /\ [][NextRun]_vars

\* the event loop of the worker runs every ready task: the worker loop goes
\* on, a poller reads the row again after its sleep, a handler that does not
\* raise reaches its last update, the cancel endpoint completes its request
FairRun ==
    /\ WF_vars(WorkerClaimPg \/ WorkerSelectSqlite \/ WorkerUpdateSqlite
                  \/ WorkerCount \/ WorkerYield)
    /\ WF_vars(\E t \in TaskIds : Poll(t))
    /\ WF_vars(\E t \in TaskIds : HandlerFinish(t))
    /\ WF_vars(\E j \in JobIds : CancelWrite(j))

SpecRunLive == InitRun /\ [][NextRun]_vars /\ FairRun

\* the worker loop alone is scheduled fairly: it is one coroutine that sleeps
\* at most a few seconds per iteration (worker.py:82-91), while a handler
\* runs for as long as its provider calls and scrapes take
FairWorker ==
    WF_vars(WorkerClaimPg \/ WorkerSelectSqlite \/ WorkerUpdateSqlite
               \/ WorkerCount \/ WorkerYield)

SpecPool == InitRun /\ [][NextRun]_vars /\ FairWorker

\* worker.py lines 89-91: count_in_progress_background_jobs_by_task_name
\* (line 59) or the yield's update_background_job (line 79) raises; the except
\* clause of the loop logs the error, sleeps and starts the next iteration.
\* Nothing is written and the local variable job is dropped.
WorkerError ==
    /\ wpc \in {"claimed", "yield"}
    /\ wpc' = "loop"
    /\ wjob' = 0
    /\ UNCHANGED <<backend, xvars, svars, jobs, tasks, active_tasks, recovered,
                   cancelReq, callers, evars>>

\* the queue with a database that can fail under the worker
NextWorkerError ==
    \/ WorkerClaimPg
    \/ WorkerSelectSqlite
    \/ WorkerUpdateSqlite
    \/ WorkerCount
    \/ WorkerYield
    \/ WorkerError
    \/ \E t \in TaskIds : Poll(t)
    \/ \E t \in TaskIds : HandlerFinish(t)
    \/ \E t \in TaskIds : HandlerFail(t)
    \/ \E k \in TaskName : CreateJob(k)
    \/ \E j \in JobIds : CancelRead(j)
    \/ \E j \in JobIds : CancelWrite(j)

SpecWorkerError == InitRun /\ [][NextWorkerError]_vars

\* the queue with every kind of job the controllers enqueue
NextDispatch ==
    \/ WorkerClaimPg
    \/ WorkerSelectSqlite
    \/ WorkerUpdateSqlite
    \/ WorkerCount
    \/ WorkerYield
    \/ \E t \in TaskIds : Poll(t)
    \/ \E t \in TaskIds : HandlerFinish(t)
    \/ \E t \in TaskIds : HandlerFail(t)
    \/ \E t \in TaskIds : HandlerReturn(t)
    \/ \E k \in EnqueuedKinds : CreateJob(k)
    \/ \E j \in JobIds : CancelRead(j)
    \/ \E j \in JobIds : CancelWrite(j)

SpecDispatch == InitRun /\ [][NextDispatch]_vars

----------------------------------------------------------------------------
(* SpecClaim: concurrent callers of get_and_lock_pending_background_job *)

\* PostgresDB.get_and_lock_pending_background_job: the whole call
ClaimPg(c) ==
    /\ backend = "postgres"
    /\ callers[c].pc = "idle"
    /\ jobs' = PgClaimJobs(jobs)
    /\ callers' = [callers EXCEPT ![c].pc = "returned",
                                  ![c].ret = OldestPending(jobs)]
    /\ UNCHANGED <<backend, xvars, svars, wpc, wjob, tasks, active_tasks, recovered, cancelReq,
                   evars>>

\* SQLiteDB.get_and_lock_pending_background_job: tx.fetch_one(SELECT id ...)
ClaimSelect(c) ==
    /\ backend = "sqlite"
    /\ callers[c].pc = "idle"
    /\ callers' = [callers EXCEPT
                     ![c].pc = IF OldestPending(jobs) = 0 THEN "returned"
                               ELSE "selected",
                     ![c].sel = OldestPending(jobs),
                     ![c].ret = 0]
    /\ UNCHANGED <<backend, xvars, svars, jobs, wpc, wjob, tasks, active_tasks, recovered,
                   cancelReq,
                   evars>>

\* SQLiteDB.get_and_lock_pending_background_job: tx.execute(UPDATE ...)
ClaimUpdate(c) ==
    /\ callers[c].pc = "selected"
    /\ jobs' = SqliteClaimUpdate(jobs, callers[c].sel)
    /\ callers' = [callers EXCEPT ![c].pc = "updated"]
    /\ UNCHANGED <<backend, xvars, svars, wpc, wjob, tasks, active_tasks, recovered, cancelReq,
                   evars>>

\* SQLiteDB.get_and_lock_pending_background_job: tx.fetch_one(SELECT * ...)
ClaimFetch(c) ==
    /\ callers[c].pc = "updated"
    /\ callers' = [callers EXCEPT ![c].pc = "returned", ![c].ret = callers[c].sel]
    /\ UNCHANGED <<backend, xvars, svars, jobs, wpc, wjob, tasks, active_tasks, recovered,
                   cancelReq,
                   evars>>

\* the caller takes the returned job (or None) and may call again
ClaimAgain(c) ==
    /\ callers[c].pc = "returned"
    /\ callers' = [callers EXCEPT
                     ![c].pc = "idle", ![c].sel = 0, ![c].ret = 0,
                     ![c].got = IF callers[c].ret = 0 THEN @
                                ELSE @ \cup {callers[c].ret}]
    /\ UNCHANGED <<backend, xvars, svars, jobs, wpc, wjob, tasks, active_tasks, recovered,
                   cancelReq,
                   evars>>

\* any table of jobs the queue can hold when the callers start
ClaimTables ==
    {js \in [JobIds -> [task_name : {"process_project_entries", "none"},
                        status : {"pending", "in_progress", "completed",
                                  "absent"}]] :
        /\ \A j \in JobIds : (js[j].status = "absent") <=> (js[j].task_name = "none")
        /\ \A j \in JobIds : Exists(js, j) => \A i \in 1..j : Exists(js, i)}

InitClaim ==
    /\ ExtrasIdle
    /\ late_calls = {}
    /\ backend \in {"postgres", "sqlite"}
    /\ jobs \in ClaimTables
    /\ wpc = "loop"
    /\ wjob = 0
    /\ tasks = <<>>
    /\ active_tasks = {}
    /\ recovered = TRUE
    /\ cancelReq = NoCancel
    /\ callers = NoCallers
    /\ EntriesIdle
    /\ ServicesIdle

NextClaim ==
    \/ \E c \in Callers : ClaimPg(c)
    \/ \E c \in Callers : ClaimSelect(c)
    \/ \E c \in Callers : ClaimUpdate(c)
    \/ \E c \in Callers : ClaimFetch(c)
    \/ \E c \in Callers : ClaimAgain(c)

SpecClaim == InitClaim /\ [][NextClaim]_vars

----------------------------------------------------------------------------
(* SpecEntries: services/background_jobs.py process_project_entries *)

EJob == 1   \* the job of the modelled run

LinkResults == {"success", "skipped", "failed_log", "failed_nolog"}

\* db/links.py get_processable_links_for_project
get_processable_links_for_project(ls) ==
    {l \in LinkIds : ls[l] \in {"pending", "failed"}}

\* a revert whose WHERE clause names the wrong status
RevertWrongStatus(ls) ==
    [l \in LinkIds |-> IF ls[l] = "failed" THEN "pending" ELSE ls[l]]

\* UPDATE "Link" SET status = 'pending'
\*   WHERE project_id = %s AND status = 'processing'
RevertProcessing(ls) ==
    [l \in LinkIds |-> IF ls[l] = "processing" THEN "pending" ELSE ls[l]]

\* link tasks inside "async with semaphore"
\* a semaphore that is released when the LLM call begins
SemaphoreHeldUntilCall == {l \in LinkIds : ltask[l] \in {"limit", "io"}}

\* line 876 async with semaphore: the tasks inside the block
SemaphoreHeld == {l \in LinkIds : ltask[l] \in {"limit", "io", "gen"}}

\* a batch write that leaves the link of a failed result as it is
LinkStatusDropsFailure(r) ==
    CASE r = "success" -> "completed"
      [] r = "skipped" -> "skipped"
      [] OTHER -> "processing"

\* _process_db_batch: the link status written for a result
LinkStatusFor(r) ==
    CASE r = "success" -> "completed"
      [] r = "skipped" -> "skipped"
      [] OTHER -> "failed"

\* _process_db_batch: "if result.log_payload: create_api_request_log(...)"
LogAfter(lg, r) ==
    CASE r \in {"success", "skipped"} -> [lg EXCEPT !.ok = @ + 1]
      [] r = "failed_log" -> [lg EXCEPT !.err = @ + 1]
      [] OTHER -> lg

\* a count that adds the whole batch to every counter
CountOfBatch(b, rs) == Cardinality(b)

\* _process_db_batch counts: the results of batch b of the kinds rs
CountOf(b, rs) == Cardinality({l \in b : lres[l] \in rs})

\* run_worker claims the job and submits it (it is the only job of its kind)
EntriesSubmit ==
    /\ hpc = "idle"
    /\ OldestPending(jobs) = EJob
    /\ jobs' = PgClaimJobs(jobs)
    /\ hpc' = "start"
    /\ UNCHANGED <<backend, xvars, svars, cancelReq, qvars, links, pstatus, pending_links,
                   ltask, lres, flag, batch_results, totals, apilog, entries>>

\* lines 815-882: pick the links up, mark them processing, create the poller
\* and one task per link
EntriesStart ==
    /\ hpc = "start"
    /\ LET pl == get_processable_links_for_project(links)
       IN IF pl = {}
          THEN /\ pstatus' = "completed"
               /\ jobs' = update_background_job(jobs, EJob, "completed")
               /\ hpc' = "done"
               /\ UNCHANGED <<links, pending_links, ltask>>
          ELSE /\ pstatus' = "processing"
               /\ links' = [l \in LinkIds |->
                              IF l \in pl THEN "processing" ELSE links[l]]
               /\ pending_links' = pl
               /\ ltask' = [l \in LinkIds |->
                              IF l \in pl THEN "created" ELSE "none"]
               /\ hpc' = "io"
               /\ UNCHANGED jobs
    /\ UNCHANGED <<backend, xvars, svars, cancelReq, qvars, lres, flag, batch_results,
                   totals, apilog, entries>>

\* lines 860-869 poll_for_cancellation.  The poller and the link tasks are
\* created in one event-loop iteration, so every link task has run up to its
\* first suspension before the poller's first database read returns.
EntriesPoll ==
    /\ hpc = "io"
    /\ ~flag
    /\ \A l \in pending_links : ltask[l] # "created"
    /\ jobs[EJob].status = "cancelling"
    /\ flag' = TRUE
    /\ UNCHANGED <<backend, xvars, svars, jobs, cancelReq, qvars, links, pstatus, hpc,
                   pending_links, ltask, lres, batch_results, totals, apilog,
                   entries>>

\* process_with_limiter lines 874-876: first check, then wait for the semaphore
TaskCheck(l) ==
    /\ ltask[l] = "created"
    /\ IF flag
       THEN /\ ltask' = [ltask EXCEPT ![l] = "ret"]
            /\ lres' = [lres EXCEPT ![l] = "None"]
       ELSE /\ ltask' = [ltask EXCEPT ![l] = "waitsem"]
            /\ UNCHANGED lres
    /\ UNCHANGED <<backend, xvars, svars, jobs, cancelReq, qvars, links, pstatus, hpc,
                   pending_links, flag, batch_results, totals, apilog, entries>>

\* line 876-877: the semaphore is acquired, wait_for_rate_limit is called
TaskAcquire(l) ==
    /\ ltask[l] = "waitsem"
    /\ Cardinality(SemaphoreHeld) < CONCURRENT_REQUESTS
    /\ ltask' = [ltask EXCEPT ![l] = "limit"]
    /\ UNCHANGED <<backend, xvars, svars, jobs, cancelReq, qvars, links, pstatus, hpc,
                   pending_links, lres, flag, batch_results, totals, apilog,
                   entries>>

\* lines 877-880: wait_for_rate_limit returns, second check
LimiterReturn(l) ==
    /\ ltask[l] = "limit"
    /\ IF flag
       THEN /\ ltask' = [ltask EXCEPT ![l] = "ret"]
            /\ lres' = [lres EXCEPT ![l] = "None"]
       ELSE /\ ltask' = [ltask EXCEPT ![l] = "io"]
            /\ UNCHANGED lres
    /\ UNCHANGED <<backend, xvars, svars, jobs, cancelReq, qvars, links, pstatus, hpc,
                   pending_links, flag, batch_results, totals, apilog, entries>>

\* history: the LLM call of link l begins or returns; it is recorded when
\* the cancel endpoint has already set the job cancelling
AfterRequest(l) ==
    IF jobs[EJob].status = "cancelling" THEN late_calls \cup {l}
    ELSE late_calls

\* _process_single_link_io lines 678-705: scrape; on an error the except
\* clause returns LinkFailedResult without log_payload, otherwise
\* provider.generate is called
Scrape(l, ok) ==
    /\ ltask[l] = "io"
    /\ IF ok
       THEN /\ ltask' = [ltask EXCEPT ![l] = "gen"]
            /\ late_calls' = AfterRequest(l)
            /\ UNCHANGED lres
       ELSE /\ ltask' = [ltask EXCEPT ![l] = "ret"]
            /\ lres' = [lres EXCEPT ![l] = "failed_nolog"]
            /\ UNCHANGED late_calls
    /\ UNCHANGED <<backend, ssevars, wkvars, gen_calls, yvars, svars, jobs, cancelReq, qvars, links, pstatus, hpc,
                   pending_links, flag, batch_results, totals, apilog, entries>>

\* _process_single_link_io lines 707-754: provider.generate returns; the
\* result carries log_payload
GenerateReturn(l, r) ==
    /\ ltask[l] = "gen"
    /\ r \in {"success", "skipped", "failed_log"}
    /\ ltask' = [ltask EXCEPT ![l] = "ret"]
    /\ lres' = [lres EXCEPT ![l] = r]
    /\ late_calls' = AfterRequest(l)
    /\ UNCHANGED <<backend, ssevars, wkvars, gen_calls, yvars, svars, jobs, cancelReq, qvars, links, pstatus, hpc,
                   pending_links, flag, batch_results, totals, apilog, entries>>

\* lines 896-900: is the batch written now?
BatchDue(b) ==
    /\ \/ Cardinality(b) >= DB_WRITE_BATCH_SIZE
       \/ totals.processed + Cardinality(b) = Cardinality(pending_links)
    /\ b # {}

\* lines 890-920: as_completed yields the next finished task; the batch is
\* written by _process_db_batch (757-804) when due; after the last task the
\* poller is cancelled
Harvest(l) ==
    /\ hpc = "io"
    /\ ltask[l] = "ret"
    /\ LET b == IF lres[l] # "None" THEN batch_results \cup {l}
                ELSE batch_results
           lt == [ltask EXCEPT ![l] = "got"]
       IN /\ ltask' = lt
          /\ IF BatchDue(b)
             THEN /\ links' = [x \in LinkIds |->
                                 IF x \in b THEN LinkStatusFor(lres[x])
                                 ELSE links[x]]
                  /\ apilog' = [x \in LinkIds |->
                                  IF x \in b THEN LogAfter(apilog[x], lres[x])
                                  ELSE apilog[x]]
                  /\ entries' = [x \in LinkIds |->
                                   IF x \in b /\ lres[x] = "success"
                                   THEN entries[x] + 1 ELSE entries[x]]
                  /\ totals' =
                       [processed |-> totals.processed + Cardinality(b),
                        created |-> totals.created + CountOf(b, {"success"}),
                        skipped |-> totals.skipped + CountOf(b, {"skipped"}),
                        failed |-> totals.failed
                                   + CountOf(b, {"failed_log", "failed_nolog"})]
                  /\ batch_results' = {}
             ELSE /\ batch_results' = b
                  /\ UNCHANGED <<links, apilog, entries, totals>>
          /\ hpc' = IF \A x \in pending_links : lt[x] = "got" THEN "final"
                    ELSE "io"
    /\ UNCHANGED <<backend, xvars, svars, jobs, cancelReq, qvars, pstatus, pending_links,
                   lres, flag>>

\* lines 923-950: the finalization transaction.  With PostgresDB the job
\* update and the link update commit together; with SQLiteDB (pass-through
\* transaction) each statement commits on its own.
EntriesFinalize ==
    /\ hpc = "final"
    /\ IF flag
       THEN /\ jobs' = update_background_job(jobs, EJob, "canceled")
            /\ IF backend = "postgres"
               THEN /\ links' = RevertProcessing(links)
                    /\ hpc' = "done"
               ELSE /\ hpc' = "revert"
                    /\ UNCHANGED links
            /\ UNCHANGED pstatus
       ELSE /\ pstatus' = IF totals.failed = 0 THEN "completed" ELSE "failed"
            /\ jobs' = update_background_job(jobs, EJob, "completed")
            /\ hpc' = "done"
            /\ UNCHANGED links
    /\ UNCHANGED <<backend, xvars, svars, cancelReq, qvars, pending_links, ltask, lres,
                   flag, batch_results, totals, apilog, entries>>

\* lines 928-931 on SQLite: the second statement of the finalization
EntriesRevert ==
    /\ hpc = "revert"
    /\ links' = RevertProcessing(links)
    /\ hpc' = "done"
    /\ UNCHANGED <<backend, xvars, svars, jobs, cancelReq, qvars, pstatus, pending_links,
                   ltask, lres, flag, batch_results, totals, apilog, entries>>

InitEntries ==
    /\ ExtrasIdle
    /\ late_calls = {}
    /\ backend \in {"postgres", "sqlite"}
    /\ jobs = [j \in JobIds |->
                 IF j = EJob
                 THEN [task_name |-> "process_project_entries",
                       status |-> "pending"]
                 ELSE NoJob]
    /\ wpc = "loop"
    /\ wjob = 0
    /\ tasks = <<>>
    /\ active_tasks = {}
    /\ recovered = TRUE
    /\ cancelReq = NoCancel
    /\ callers = NoCallers
    /\ links \in [LinkIds -> {"pending", "failed", "completed"}]
    /\ pstatus = "links_extracted"
    /\ hpc = "idle"
    /\ pending_links = {}
    /\ ltask = [l \in LinkIds |-> "none"]
    /\ lres = [l \in LinkIds |-> "none"]
    /\ flag = FALSE
    /\ batch_results = {}
    /\ totals = NoTotals
    /\ apilog = [l \in LinkIds |-> NoLog]
    /\ entries = [l \in LinkIds |-> 0]
    /\ ServicesIdle

NextEntries ==
    \/ EntriesSubmit
    \/ EntriesStart
    \/ EntriesPoll
    \/ \E l \in LinkIds : TaskCheck(l)
    \/ \E l \in LinkIds : TaskAcquire(l)
    \/ \E l \in LinkIds : LimiterReturn(l)
    \/ \E l \in LinkIds : \E ok \in BOOLEAN : Scrape(l, ok)
    \/ \E l \in LinkIds : \E r \in LinkResults : GenerateReturn(l, r)
    \/ \E l \in LinkIds : Harvest(l)
    \/ EntriesFinalize
    \/ EntriesRevert
    \/ CancelRead(EJob)
    \/ CancelWrite(EJob)

SpecEntries == InitEntries /\ [][NextEntries]_vars

----------------------------------------------------------------------------
(* services/background_jobs.py _process_db_batch, one statement per step *)

\* batch_results: up to DB_WRITE_BATCH_SIZE results of distinct links
Batches ==
    {b \in UNION {[1..n -> [link : LinkIds, res : LinkResults]] :
                     n \in 1..DB_WRITE_BATCH_SIZE} :
        \A i, k \in DOMAIN b : i # k => b[i].link # b[k].link}

BatchLinks == {bseq[i].link : i \in DOMAIN bseq}

\* the statement after the link update of result i
AfterLink(i) ==
    IF i < Len(bseq) THEN [i |-> i + 1, stmt |-> "log"]
    ELSE [i |-> i, stmt |-> "commit"]

\* line 768-769: create_api_request_log(result.log_payload) is called
\* without tx: it runs db.execute_and_fetch_one, on PostgreSQL on another
\* pooled connection and on SQLite with its own commit
BatchLog ==
    /\ bpc = "write"
    /\ bpos.stmt = "log"
    /\ LET r == bseq[bpos.i]
       IN /\ apilog' = [apilog EXCEPT ![r.link] = LogAfter(@, r.res)]
          /\ bpos' = [bpos EXCEPT !.stmt = IF r.res = "success" THEN "entry"
                                           ELSE "link"]
    /\ UNCHANGED <<backend, jobs, cancelReq, qvars, svars, ssevars, wkvars,
                   gen_calls, late_calls, hvars, links, pstatus, hpc, pending_links,
                   ltask, lres, flag, batch_results, totals, entries,
                   bpc, bseq, btx>>

\* line 772: create_lorebook_entry(result.entry_payload, tx=tx); the SQLite
\* transaction passes the statement through and commits it
\* (db/database.py:245-260, 407-411)
BatchEntry ==
    /\ bpc = "write"
    /\ bpos.stmt = "entry"
    /\ LET l == bseq[bpos.i].link
       IN IF backend = "postgres"
          THEN /\ btx' = [btx EXCEPT !.entries[l] = @ + 1]
               /\ UNCHANGED entries
          ELSE /\ entries' = [entries EXCEPT ![l] = @ + 1]
               /\ UNCHANGED btx
    /\ bpos' = [bpos EXCEPT !.stmt = "link"]
    /\ UNCHANGED <<backend, jobs, cancelReq, qvars, svars, ssevars, wkvars,
                   gen_calls, late_calls, hvars, links, pstatus, hpc, pending_links,
                   ltask, lres, flag, batch_results, totals, apilog,
                   bpc, bseq>>

\* lines 773-799: update_link(result.link_id, ..., tx=tx)
BatchLink ==
    /\ bpc = "write"
    /\ bpos.stmt = "link"
    /\ LET r == bseq[bpos.i]
       IN IF backend = "postgres"
          THEN /\ btx' = [btx EXCEPT !.links[r.link] = LinkStatusFor(r.res)]
               /\ UNCHANGED links
          ELSE /\ links' = [links EXCEPT ![r.link] = LinkStatusFor(r.res)]
               /\ UNCHANGED btx
    /\ bpos' = AfterLink(bpos.i)
    /\ UNCHANGED <<backend, jobs, cancelReq, qvars, svars, ssevars, wkvars,
                   gen_calls, late_calls, hvars, pstatus, hpc, pending_links,
                   ltask, lres, flag, batch_results, totals, apilog, entries,
                   bpc, bseq>>

\* line 766, leaving the "async with": PostgreSQL commits the transaction
\* (db/database.py:194-200); on SQLite there is nothing left to commit
BatchCommit ==
    /\ bpc = "write"
    /\ bpos.stmt = "commit"
    /\ IF backend = "postgres"
       THEN /\ links' = btx.links
            /\ entries' = btx.entries
       ELSE UNCHANGED <<links, entries>>
    /\ bpc' = "done"
    /\ UNCHANGED <<backend, jobs, cancelReq, qvars, svars, ssevars, wkvars,
                   gen_calls, late_calls, hvars, pstatus, hpc, pending_links,
                   ltask, lres, flag, batch_results, totals, apilog,
                   bseq, bpos, btx>>

\* the statement the call is about to execute raises (the connection is
\* lost, a constraint fails, a notification cannot be serialised):
\* PostgreSQL rolls the transaction back, SQLite has nothing to roll back
BatchRaise ==
    /\ bpc = "write"
    /\ bpc' = "failed"
    /\ btx' = [links |-> links, entries |-> entries]
    /\ UNCHANGED <<backend, jobs, cancelReq, qvars, svars, ssevars, wkvars,
                   gen_calls, late_calls, hvars, evars, bseq, bpos>>

\* the call begins: the links of the batch are processing (lines 850-851),
\* none of the results has been written
InitBatch ==
    /\ SseIdle
    /\ WalkIdle
    /\ gen_calls = [p \in Projects |-> <<>>]
    /\ late_calls = {}
    /\ HandlerIdle
    /\ backend \in {"postgres", "sqlite"}
    /\ jobs = [j \in JobIds |-> NoJob]
    /\ wpc = "loop"
    /\ wjob = 0
    /\ tasks = <<>>
    /\ active_tasks = {}
    /\ recovered = TRUE
    /\ cancelReq = NoCancel
    /\ callers = NoCallers
    /\ ServicesIdle
    /\ bseq \in Batches
    /\ links = [l \in LinkIds |-> IF l \in BatchLinks THEN "processing"
                                  ELSE "absent"]
    /\ pstatus = "processing"
    /\ hpc = "idle"
    /\ pending_links = {}
    /\ ltask = [l \in LinkIds |-> "none"]
    /\ lres = [l \in LinkIds |-> "none"]
    /\ flag = FALSE
    /\ batch_results = {}
    /\ totals = NoTotals
    /\ apilog = [l \in LinkIds |-> NoLog]
    /\ entries = [l \in LinkIds |-> 0]
    /\ bpc = "write"
    /\ bpos = [i |-> 1, stmt |-> "log"]
    /\ btx = [links |-> links, entries |-> entries]

NextBatch ==
    \/ BatchLog
    \/ BatchEntry
    \/ BatchLink
    \/ BatchCommit
    \/ BatchRaise

SpecBatch == InitBatch /\ [][NextBatch]_vars

----------------------------------------------------------------------------
(* services/background_jobs.py process_project_entries, with the job row's
   progress fields, the poller, failures of the database and restarts of
   the process.  A link task is one step here: from its creation to its
   result. *)

\* what the steps below leave alone
hrest == <<backend, cancelReq, qvars, svars, ssevars, wkvars, gen_calls,
           late_calls, bvars>>

\* the columns total_items, processed_items and progress of a job row that
\* no handler has written yet (NULL, shown as 0)
NoRow == [total_items |-> 0, processed_items |-> 0, progress |-> 0]

\* progress = (total_processed / total_links) * 100
Progress(n, total) == (n * 100) \div total

\* links of the project whose result has been written by a batch
WrittenLinks == {l \in pending_links : links[l] \in {"completed", "skipped", "failed"}}

\* line 920: polling_task.cancel()
PollerCancelled == pollers \ {run}

\* lines 816-882: the links are read; with none the project and the job are
\* completed at once, otherwise project, job row and links are updated in one
\* transaction and the poller and the link tasks are created
HStart ==
    /\ hpc = "start"
    /\ LET pl == get_processable_links_for_project(links)
       IN IF pl = {}
          THEN /\ pstatus' = "completed"
               /\ jobs' = update_background_job(jobs, EJob, "completed")
               /\ prow' = [prow EXCEPT !.progress = 100]
               /\ hpc' = "done"
               /\ UNCHANGED <<links, pending_links, ltask, lres, pollers>>
          ELSE /\ pstatus' = "processing"
               /\ prow' = [total_items |-> Cardinality(pl),
                           processed_items |-> 0, progress |-> 0]
               /\ links' = [l \in LinkIds |->
                              IF l \in pl THEN "processing" ELSE links[l]]
               /\ pending_links' = pl
               /\ ltask' = [l \in LinkIds |->
                              IF l \in pl THEN "created" ELSE ltask[l]]
               /\ lres' = [l \in LinkIds |->
                              IF l \in pl THEN "none" ELSE lres[l]]
               /\ pollers' = pollers \cup {run}
               /\ hpc' = "io"
               /\ UNCHANGED jobs
    /\ flag' = FALSE
    /\ batch_results' = {}
    /\ totals' = NoTotals
    /\ UNCHANGED <<hrest, apilog, entries, run>>

\* lines 860-869: the poller of the running handler reads cancelling, sets
\* the event and ends.  A poller of an earlier job reads that job's row,
\* which is terminal, and goes on sleeping and reading.
HPoll ==
    /\ run \in pollers
    /\ jobs[EJob].status = "cancelling"
    /\ flag' = TRUE
    /\ pollers' = pollers \ {run}
    /\ UNCHANGED <<hrest, jobs, links, pstatus, hpc, pending_links, ltask, lres,
                   batch_results, totals, apilog, entries, prow, run>>

\* lines 873-880 and _process_single_link_io: the task of link l ends with
\* result r; None only at a checkpoint that found the event set.  The task
\* does not look at the handler: it ends whether or not the handler is
\* still there to await it.
LinkTaskReturn(l, r) ==
    /\ ltask[l] = "created"
    /\ r = "None" => flag
    /\ ltask' = [ltask EXCEPT ![l] = "ret"]
    /\ lres' = [lres EXCEPT ![l] = r]
    /\ UNCHANGED <<hrest, jobs, links, pstatus, hpc, pending_links, flag,
                   batch_results, totals, apilog, entries, prow, pollers, run>>

\* the batch with the result of link l added (lines 891-893)
BatchWith(l) == IF lres[l] # "None" THEN batch_results \cup {l}
                ELSE batch_results

\* totals that count one item per batch
TotalsPerBatch(b) ==
    [processed |-> totals.processed + 1,
     created |-> totals.created + CountOf(b, {"success"}),
     skipped |-> totals.skipped + CountOf(b, {"skipped"}),
     failed |-> totals.failed + CountOf(b, {"failed_log", "failed_nolog"})]

\* the totals after batch b (lines 903-906)
TotalsAfter(b) ==
    [processed |-> totals.processed + Cardinality(b),
     created |-> totals.created + CountOf(b, {"success"}),
     skipped |-> totals.skipped + CountOf(b, {"skipped"}),
     failed |-> totals.failed + CountOf(b, {"failed_log", "failed_nolog"})]

\* rows after the results of the links w have been written
LinksAfter(w) ==
    [x \in LinkIds |-> IF x \in w THEN LinkStatusFor(lres[x]) ELSE links[x]]

LogsAfter(w) ==
    [x \in LinkIds |-> IF x \in w THEN LogAfter(apilog[x], lres[x])
                       ELSE apilog[x]]

EntriesAfter(w) ==
    [x \in LinkIds |-> IF x \in w /\ lres[x] = "success" THEN entries[x] + 1
                       ELSE entries[x]]

\* the loop of lines 890-920 has consumed every future
AllGot(lt) == \A x \in pending_links : lt[x] = "got"

\* lines 890-907: as_completed yields the result of link l; a due batch is
\* written by _process_db_batch and the totals are added up
HHarvest(l) ==
    /\ hpc = "io"
    /\ l \in pending_links
    /\ ltask[l] = "ret"
    /\ LET b == BatchWith(l)
           lt == [ltask EXCEPT ![l] = "got"]
       IN /\ ltask' = lt
          /\ IF BatchDue(b)
             THEN /\ links' = LinksAfter(b)
                  /\ apilog' = LogsAfter(b)
                  /\ entries' = EntriesAfter(b)
                  /\ totals' = TotalsAfter(b)
                  /\ batch_results' = {}
                  /\ hpc' = "progress"
                  /\ UNCHANGED pollers
             ELSE /\ batch_results' = b
                  /\ hpc' = IF AllGot(lt) THEN "final" ELSE "io"
                  /\ pollers' = IF AllGot(lt) THEN PollerCancelled ELSE pollers
                  /\ UNCHANGED <<links, apilog, entries, totals>>
    /\ UNCHANGED <<hrest, jobs, pstatus, pending_links, lres, flag, prow, run>>

\* lines 909-920: the progress of the job row is written in a transaction
\* of its own after the batch; after the last future the poller is cancelled
HProgress ==
    /\ hpc = "progress"
    /\ prow' = [prow EXCEPT !.processed_items = totals.processed,
                            !.progress = Progress(totals.processed,
                                                  Cardinality(pending_links))]
    /\ hpc' = IF AllGot(ltask) THEN "final" ELSE "io"
    /\ pollers' = IF AllGot(ltask) THEN PollerCancelled ELSE pollers
    /\ UNCHANGED <<hrest, jobs, links, pstatus, pending_links, ltask, lres, flag,
                   batch_results, totals, apilog, entries, run>>

\* lines 923-950: the finalization
HFinalize ==
    /\ hpc = "final"
    /\ IF flag
       THEN /\ jobs' = update_background_job(jobs, EJob, "canceled")
            /\ links' = RevertProcessing(links)
            /\ UNCHANGED pstatus
       ELSE /\ pstatus' = IF totals.failed = 0 THEN "completed" ELSE "failed"
            /\ jobs' = update_background_job(jobs, EJob, "completed")
            /\ UNCHANGED links
    /\ hpc' = "done"
    /\ UNCHANGED <<hrest, pending_links, ltask, lres, flag, batch_results,
                   totals, apilog, entries, prow, pollers, run>>

\* _process_db_batch raises while it writes the due batch with the result
\* of link l, after the results w and the insert of e's entry (e = 0: none).
\* PostgreSQL rolls back the entries and link updates and keeps the logs,
\* which are inserted outside the transaction; on SQLite every statement
\* executed so far stays.  The exception
\* leaves process_project_entries at line 902: lines 909-950 are not run and
\* process_background_job writes failed (lines 978-988).
HBatchRaise(l, w, e) ==
    /\ hpc = "io"
    /\ l \in pending_links
    /\ ltask[l] = "ret"
    /\ BatchDue(BatchWith(l))
    /\ w \subseteq BatchWith(l)
    /\ w # BatchWith(l)
    /\ e \in (BatchWith(l) \ w) \cup {0}
    /\ e # 0 => lres[e] = "success"
    /\ ltask' = [ltask EXCEPT ![l] = "got"]
    /\ IF backend = "postgres"
       THEN UNCHANGED <<links, entries>>
       ELSE /\ links' = LinksAfter(w)
            /\ entries' = EntriesAfter(w \cup {e})
    /\ apilog' = LogsAfter(w \cup ({e} \ {0}))
    /\ jobs' = update_background_job(jobs, EJob, "failed")
    /\ hpc' = "done"
    /\ UNCHANGED <<hrest, pstatus, pending_links, lres, flag, batch_results,
                   totals, prow, pollers, run>>

\* the handler as one job runs it
NextHandlerJob ==
    \/ HStart
    \/ HPoll
    \/ \E l \in LinkIds : \E r \in LinkResults \cup {"None"} : LinkTaskReturn(l, r)
    \/ \E l \in LinkIds : HHarvest(l)
    \/ HProgress
    \/ HFinalize
    \/ \E l \in LinkIds : \E w \in SUBSET LinkIds : \E e \in LinkIds \cup {0} :
          HBatchRaise(l, w, e)
    \/ CancelRead(EJob)
    \/ CancelWrite(EJob)

\* the worker has claimed the job and spawned its handler; ls are the links
\* of the project
HandlerInit(ls) ==
    /\ SseIdle
    /\ WalkIdle
    /\ gen_calls = [p \in Projects |-> <<>>]
    /\ late_calls = {}
    /\ BatchIdle
    /\ backend \in {"postgres", "sqlite"}
    /\ jobs = [j \in JobIds |->
                 IF j = EJob
                 THEN [task_name |-> "process_project_entries",
                       status |-> "in_progress"]
                 ELSE NoJob]
    /\ wpc = "loop"
    /\ wjob = 0
    /\ tasks = <<>>
    /\ active_tasks = {}
    /\ recovered = TRUE
    /\ cancelReq = NoCancel
    /\ callers = NoCallers
    /\ links = ls
    /\ pstatus = "links_extracted"
    /\ hpc = "start"
    /\ pending_links = {}
    /\ ltask = [l \in LinkIds |-> "none"]
    /\ lres = [l \in LinkIds |-> "none"]
    /\ flag = FALSE
    /\ batch_results = {}
    /\ totals = NoTotals
    /\ apilog = [l \in LinkIds |-> NoLog]
    /\ entries = [l \in LinkIds |-> 0]
    /\ prow = NoRow
    /\ pollers = {}
    /\ run = 1
    /\ ServicesIdle

InitHandler ==
    \E ls \in [LinkIds -> {"pending", "failed", "completed"}] : HandlerInit(ls)

SpecHandlerJob == InitHandler /\ [][NextHandlerJob]_vars

\* the process is restarted after the handler has ended: its tasks and
\* their memory are gone, and recover_stale_datas (main.py:88-92) resets the
\* rows
HRestart ==
    /\ hpc = "done"
    /\ ltask' = [l \in LinkIds |-> "none"]
    /\ lres' = [l \in LinkIds |-> "none"]
    /\ pending_links' = {}
    /\ batch_results' = {}
    /\ totals' = NoTotals
    /\ flag' = FALSE
    /\ pollers' = {}
    /\ jobs' = reset_in_progress_jobs_to_pending(jobs)
    /\ links' = reset_processing_links_to_pending(links)
    /\ UNCHANGED <<hrest, pstatus, hpc, apilog, entries, prow, run>>

\* POST /jobs/process-project-entries after the previous job has ended: the
\* new job is created, claimed and its handler spawned (worker.py:53-70)
HNewJob ==
    /\ hpc = "done"
    /\ jobs[EJob].status \in Terminal
    /\ run < MaxRuns
    /\ run' = run + 1
    /\ jobs' = update_background_job(jobs, EJob, "in_progress")
    /\ prow' = NoRow
    /\ hpc' = "start"
    /\ UNCHANGED <<hrest, links, pstatus, pending_links, ltask, lres, flag,
                   batch_results, totals, apilog, entries, pollers>>

\* a sequence of process_project_entries jobs on one project
NextHandler ==
    \/ HStart
    \/ HPoll
    \/ \E l \in LinkIds : \E r \in LinkResults \cup {"None"} : LinkTaskReturn(l, r)
    \/ \E l \in LinkIds : HHarvest(l)
    \/ HProgress
    \/ HFinalize
    \/ \E l \in LinkIds : \E w \in SUBSET LinkIds : \E e \in LinkIds \cup {0} :
          HBatchRaise(l, w, e)
    \/ CancelRead(EJob)
    \/ CancelWrite(EJob)
    \/ HRestart
    \/ HNewJob

\* the first job of a project whose links have just been confirmed; the
\* project has one link fewer than the table can hold
InitHandlerFresh ==
    HandlerInit([l \in LinkIds |-> IF l < MaxLinks THEN "pending" ELSE "absent"])

SpecHandler == InitHandlerFresh /\ [][NextHandler]_vars

----------------------------------------------------------------------------
(* SpecLimiter: services/rate_limiter.py wait_for_rate_limit *)

\* state of the queue while no job is modelled
QueueIdle ==
    /\ backend = "postgres"
    /\ jobs = [j \in JobIds |-> NoJob]
    /\ wpc = "loop"
    /\ wjob = 0
    /\ tasks = <<>>
    /\ active_tasks = {}
    /\ recovered = TRUE
    /\ cancelReq = NoCancel
    /\ callers = NoCallers

Range(q) == {q[i] : i \in DOMAIN q}

\* Project.requests_per_minute: project p has limit p, so that the limits
\* 1..NumProjects all occur
requests_per_minute(p) == p

\* lines 36-42: [ts for ts in timestamps if ts > one_minute_ago]
CleanOld(ts, now) == SelectSeq(ts, LAMBDA t : t > now - Window)

\* a wake-up time one tick before the oldest timestamp leaves the window
SleepUntilEarly(ts) == Min(Range(ts)) + Window - 1

\* lines 46-47: sleep_until = oldest_timestamp + timedelta(minutes=1)
SleepUntil(ts) == Min(Range(ts)) + Window

\* the admissions younger than one minute at time now
Recent(adm, now) == SelectSeq(adm, LAMBDA t : t > now - Window)

\* a link task or a crawl step calls wait_for_rate_limit(project_id, ...)
RlCall(c, p) ==
    /\ rl[c].pc = "idle"
    /\ rl' = [rl EXCEPT ![c] = [pc |-> "acquire", project |-> p, until |-> 0]]
    /\ UNCHANGED <<backend, xvars, jobs, cancelReq, qvars, evars, pvars, cvars, clock, tracker,
                   rlock, admitted>>

\* lines 33-57 up to the first suspension: the lock is taken, the tracker is
\* cleaned, and the caller either sleeps holding the lock or records its
\* timestamp and releases the lock
RlAcquire(c) ==
    /\ rl[c].pc = "acquire"
    /\ LET p == rl[c].project
           now == clock
           ts == CleanOld(tracker[p], now)
       IN /\ rlock[p] = 0
          /\ IF Len(ts) >= requests_per_minute(p) /\ SleepUntil(ts) - now > 0
             THEN /\ tracker' = [tracker EXCEPT ![p] = ts]
                  /\ rlock' = [rlock EXCEPT ![p] = c]
                  /\ rl' = [rl EXCEPT ![c].pc = "sleep",
                                      ![c].until = SleepUntil(ts)]
                  /\ UNCHANGED admitted
             ELSE /\ tracker' = [tracker EXCEPT ![p] = Append(ts, clock)]
                  /\ admitted' = [admitted EXCEPT
                                    ![p] = Append(Recent(@, clock), clock)]
                  /\ rl' = [rl EXCEPT ![c] = [pc |-> "idle", project |-> 0,
                                              until |-> 0]]
                  /\ UNCHANGED rlock
    /\ UNCHANGED <<backend, xvars, jobs, cancelReq, qvars, evars, pvars, cvars, clock>>

\* lines 54-59: asyncio.sleep returns, the timestamp is recorded and the
\* lock released
RlWake(c) ==
    /\ rl[c].pc = "sleep"
    /\ clock >= rl[c].until
    /\ LET p == rl[c].project
       IN /\ tracker' = [tracker EXCEPT ![p] = Append(@, clock)]
          /\ admitted' = [admitted EXCEPT
                            ![p] = Append(Recent(@, clock), clock)]
          /\ rlock' = [rlock EXCEPT ![p] = 0]
    /\ rl' = [rl EXCEPT ![c] = [pc |-> "idle", project |-> 0, until |-> 0]]
    /\ UNCHANGED <<backend, xvars, jobs, cancelReq, qvars, evars, pvars, cvars, clock>>

\* time passes
Tick ==
    /\ clock < MaxTime
    /\ clock' = clock + 1
    /\ admitted' = [p \in Projects |-> Recent(admitted[p], clock + 1)]
    /\ UNCHANGED <<backend, xvars, jobs, cancelReq, qvars, evars, pvars, cvars, tracker,
                   rlock, rl>>

InitLimiter ==
    /\ ExtrasIdle
    /\ late_calls = {}
    /\ QueueIdle
    /\ EntriesIdle
    /\ clock = 0
    /\ tracker = [p \in Projects |-> <<>>]
    /\ rlock = [p \in Projects |-> 0]
    /\ rl = [c \in Waiters |-> [pc |-> "idle", project |-> 0, until |-> 0]]
    /\ admitted = [p \in Projects |-> <<>>]
    /\ link_url = [l \in LinkIds |-> 0]
    /\ CrawlIdle

NextLimiter ==
    \/ \E c \in Waiters : \E p \in Projects : RlCall(c, p)
    \/ \E c \in Waiters : RlAcquire(c)
    \/ \E c \in Waiters : RlWake(c)
    \/ Tick

SpecLimiter == InitLimiter /\ [][NextLimiter]_vars

\* generate_search_params lines 556-578: provider.generate is called at once,
\* wait_for_rate_limit is not called
SearchParamsGenerate(p) ==
    /\ Len(gen_calls[p]) < MaxGenCalls
    /\ gen_calls' = [gen_calls EXCEPT ![p] = Append(@, clock)]
    /\ UNCHANGED <<backend, jobs, cancelReq, qvars, evars, svars, ssevars,
                   wkvars, late_calls, yvars>>

\* the LLM calls of all handlers: discover_and_crawl_sources (306-307) and
\* the link tasks (877-880) call after an admission of the limiter,
\* generate_search_params calls without
NextCalls ==
    \/ \E c \in Waiters : \E p \in Projects : RlCall(c, p)
    \/ \E c \in Waiters : RlAcquire(c)
    \/ \E c \in Waiters : RlWake(c)
    \/ Tick
    \/ \E p \in Projects : SearchParamsGenerate(p)

SpecCalls == InitLimiter /\ [][NextCalls]_vars

----------------------------------------------------------------------------
(* SpecRecover: main.py recover_stale_datas over any tables *)

LinkStatus == {"pending", "processing", "completed", "failed", "skipped"}

\* the "BackgroundJob" tables a starting process can find: jobs in any status
AnyJobTables ==
    {js \in [JobIds -> [task_name : {"process_project_entries", "none"},
                        status : JobStatus \cup {"absent"}]] :
        /\ \A j \in JobIds : (js[j].status = "absent") <=> (js[j].task_name = "none")
        /\ \A j \in JobIds : Exists(js, j) => \A i \in 1..j : Exists(js, i)}

\* the process exits and is started again: main() runs anew
Restart ==
    /\ recovered
    /\ recovered' = FALSE
    /\ UNCHANGED <<backend, xvars, svars, jobs, wpc, wjob, tasks, active_tasks,
                   cancelReq, callers, evars>>

InitRecover ==
    /\ ExtrasIdle
    /\ late_calls = {}
    /\ backend \in {"postgres", "sqlite"}
    /\ jobs \in AnyJobTables
    /\ wpc = "loop"
    /\ wjob = 0
    /\ tasks = <<>>
    /\ active_tasks = {}
    /\ recovered = FALSE
    /\ cancelReq = NoCancel
    /\ callers = NoCallers
    /\ links \in [LinkIds -> LinkStatus]
    /\ pstatus = "processing"
    /\ hpc = "idle"
    /\ pending_links = {}
    /\ ltask = [l \in LinkIds |-> "none"]
    /\ lres = [l \in LinkIds |-> "none"]
    /\ flag = FALSE
    /\ batch_results = {}
    /\ totals = NoTotals
    /\ apilog = [l \in LinkIds |-> NoLog]
    /\ entries = [l \in LinkIds |-> 0]
    /\ ServicesIdle

NextRecover ==
    \/ recover_stale_datas
    \/ Restart

SpecRecover == InitRecover /\ [][NextRecover]_vars

----------------------------------------------------------------------------
(* SpecProject: the handlers of services/background_jobs.py run one after *)
(* the other on one project; Project.status and the "Link" rows            *)

ProjectStatus == {"draft", "search_params_generated", "selector_generated",
                  "links_extracted", "processing", "completed", "failed"}

\* the ids of the "Link" rows of url u
RowsOf(lu, u) == {l \in LinkIds : lu[l] = u}

FreeIds(lu) == {l \in LinkIds : lu[l] = 0}

\* an INSERT without the ON CONFLICT clause
InsertAlways(tbl, u) ==
    IF FreeIds(tbl.url) = {} THEN tbl
    ELSE LET l == Min(FreeIds(tbl.url))
         IN [url |-> [tbl.url EXCEPT ![l] = u],
             status |-> [tbl.status EXCEPT ![l] = "pending"]]

\* db/links.py create_links, one url:
\* INSERT INTO "Link" ... ON CONFLICT (project_id, url) DO NOTHING
InsertLink(tbl, u) ==
    IF RowsOf(tbl.url, u) # {} \/ FreeIds(tbl.url) = {} THEN tbl
    ELSE LET l == Min(FreeIds(tbl.url))
         IN [url |-> [tbl.url EXCEPT ![l] = u],
             status |-> [tbl.status EXCEPT ![l] = "pending"]]

\* db/links.py create_links: the urls of the payload one after the other
RECURSIVE create_links(_, _)
create_links(tbl, us) ==
    IF us = <<>> THEN tbl
    ELSE create_links(InsertLink(tbl, Head(us)), Tail(us))

\* the payloads of confirm_links: url lists, a url possibly named twice
UrlLists == UNION {[1..n -> Urls] : n \in 0..MaxUrls}

\* generate_search_params, lines 611-630
PGenerateSearchParams ==
    /\ hpc = "idle"
    /\ pstatus' = IF pstatus = "draft" THEN "search_params_generated"
                  ELSE pstatus
    /\ UNCHANGED <<backend, xvars, jobs, cancelReq, qvars, rvars, cvars, links, hpc,
                   pending_links, ltask, lres, flag, batch_results, totals,
                   apilog, entries, link_url>>

\* discover_and_crawl_sources, lines 403-408
PDiscover ==
    /\ hpc = "idle"
    /\ pstatus' = IF pstatus = "search_params_generated"
                  THEN "selector_generated" ELSE pstatus
    /\ UNCHANGED <<backend, xvars, jobs, cancelReq, qvars, rvars, cvars, links, hpc,
                   pending_links, ltask, lres, flag, batch_results, totals,
                   apilog, entries, link_url>>

\* confirm_links, lines 633-667
confirm_links(us) ==
    /\ hpc = "idle"
    /\ IF us = <<>>
       THEN UNCHANGED <<links, link_url, pstatus>>
       ELSE LET tbl == create_links([url |-> link_url, status |-> links], us)
            IN /\ link_url' = tbl.url
               /\ links' = tbl.status
               /\ pstatus' = IF pstatus = "selector_generated"
                             THEN "links_extracted" ELSE pstatus
    /\ UNCHANGED <<backend, xvars, jobs, cancelReq, qvars, rvars, cvars, hpc, pending_links,
                   ltask, lres, flag, batch_results, totals, apilog, entries>>

\* process_project_entries, lines 816-854: no processable link, or the
\* project and the links are set processing
PProcessStart ==
    /\ hpc = "idle"
    /\ LET pl == get_processable_links_for_project(links)
       IN IF pl = {}
          THEN /\ pstatus' = "completed"
               /\ UNCHANGED <<links, hpc, pending_links>>
          ELSE /\ pstatus' = "processing"
               /\ links' = [l \in LinkIds |->
                              IF l \in pl THEN "processing" ELSE links[l]]
               /\ pending_links' = pl
               /\ hpc' = "io"
    /\ UNCHANGED <<backend, xvars, jobs, cancelReq, qvars, rvars, cvars, ltask, lres, flag,
                   batch_results, totals, apilog, entries, link_url>>

\* process_project_entries, lines 890-950, not cancelled: every picked-up
\* link gets the status of its result, the project the final status
PProcessEnd(res) ==
    /\ hpc = "io"
    /\ links' = [l \in LinkIds |->
                   IF l \in pending_links THEN res[l] ELSE links[l]]
    /\ pstatus' = IF \A l \in pending_links : res[l] # "failed"
                  THEN "completed" ELSE "failed"
    /\ pending_links' = {}
    /\ hpc' = "idle"
    /\ UNCHANGED <<backend, xvars, jobs, cancelReq, qvars, rvars, cvars, ltask, lres, flag,
                   batch_results, totals, apilog, entries, link_url>>

\* process_project_entries, lines 923-931, cancelled before a batch was
\* written: the links are reverted, the project status is left as it is
PProcessCancel ==
    /\ hpc = "io"
    /\ links' = RevertProcessing(links)
    /\ pending_links' = {}
    /\ hpc' = "idle"
    /\ UNCHANGED <<backend, xvars, jobs, cancelReq, qvars, rvars, cvars, pstatus, ltask,
                   lres, flag, batch_results, totals, apilog, entries,
                   link_url>>

InitProject ==
    /\ ExtrasIdle
    /\ late_calls = {}
    /\ QueueIdle
    /\ ServicesIdle
    /\ links = [l \in LinkIds |-> "absent"]
    /\ pstatus = "draft"
    /\ hpc = "idle"
    /\ pending_links = {}
    /\ ltask = [l \in LinkIds |-> "none"]
    /\ lres = [l \in LinkIds |-> "none"]
    /\ flag = FALSE
    /\ batch_results = {}
    /\ totals = NoTotals
    /\ apilog = [l \in LinkIds |-> NoLog]
    /\ entries = [l \in LinkIds |-> 0]

NextProject ==
    \/ PGenerateSearchParams
    \/ PDiscover
    \/ \E us \in UrlLists : confirm_links(us)
    \/ PProcessStart
    \/ \E res \in [LinkIds -> {"completed", "skipped", "failed"}] :
          PProcessEnd(res)
    \/ PProcessCancel

SpecProject == InitProject /\ [][NextProject]_vars

----------------------------------------------------------------------------
(* SpecCrawl: services/background_jobs.py discover_and_crawl_sources and  *)
(* _crawl_and_discover, one page per source                               *)

\* the elements of a set of numbers in ascending order
RECURSIVE SetToSeq(_)
SetToSeq(S) == IF S = {} THEN <<>> ELSE <<Min(S)>> \o SetToSeq(S \ {Min(S)})

\* get_all_link_urls_for_project
existing_db_links == {link_url[l] : l \in LinkIds} \ {0}

\* an INSERT without the ON CONFLICT clause
AddEdgeAlways(h, e) == [h EXCEPT ![e] = @ + 1]

\* db/source_hierarchy.py add_source_child_relationship:
\* INSERT ... ON CONFLICT (parent_source_id, child_source_id) DO NOTHING
add_source_child_relationship(h, e) ==
    IF h[e] > 0 THEN h ELSE [h EXCEPT ![e] = 1]

RECURSIVE AddChildren(_, _, _)
AddChildren(h, s, cs) ==
    IF cs = {} THEN h
    ELSE AddChildren(add_source_child_relationship(h, <<s, Min(cs)>>), s,
                     cs \ {Min(cs)})

\* _crawl_and_discover lines 142-173: the urls a page yields, given the
\* urls cat matched by a category selector and con matched by a content
\* selector, at depth d
CategoryUrls(cat, d) == IF d < depth_limit THEN cat ELSE {}

ContentUrls(cat, con, d) == con \ CategoryUrls(cat, d)

\* a rescan that crawls with the category selectors of the page
CategorySelectorsKept(kind, cat) == cat

\* the urls the category selectors of the job match on a page whose category
\* links are cat: discover uses the selectors the LLM returned, rescan_links
\* line 497 passes category_selectors=[]
category_selectors(kind, cat) == IF kind = "rescan" THEN {} ELSE cat

\* the user adds a source to the project
AddSource(u) ==
    /\ cpc = "idle"
    /\ u \notin sources
    /\ sources' = sources \cup {u}
    /\ UNCHANGED <<backend, xvars, jobs, cancelReq, qvars, evars, rvars, pvars, hier,
                   cpc, cqueue, visited, new_links, existing_links, cpage,
                   ckind, cstatus, depth_limit, selectors, clog, cdone,
                   croots>>

\* job.payload.source_ids: a list of source ids, which may name a source
\* more than once
Payloads == UNION {[1..n -> Pages] : n \in 1..MaxPayload}

\* discover_and_crawl_sources lines 256-275, rescan_links lines 452-472: the
\* job starts on the sources its payload names, one queue entry per listed id
CrawlStart(kind, source_ids) ==
    /\ cpc = "idle"
    /\ Range(source_ids) \subseteq sources
    /\ cqueue' = [i \in 1..Len(source_ids) |-> <<source_ids[i], 1>>]
    /\ visited' = Range(source_ids)
    /\ new_links' = {}
    /\ existing_links' = {}
    /\ cpage' = NoPage
    /\ cpc' = "run"
    /\ ckind' = kind
    /\ cstatus' = "in_progress"
    /\ clog' = 0
    /\ cdone' = {}
    /\ croots' = Range(source_ids)
    /\ UNCHANGED <<backend, xvars, jobs, cancelReq, qvars, evars, rvars, pvars,
                   sources, hier, depth_limit, selectors>>

\* lines 283-392 (476-525 for a rescan) and _crawl_and_discover: the next
\* source is taken from the queue; discover asks the LLM for its selectors
\* and stores them, a rescan skips a source without stored selectors; the
\* pages of the source yield the urls cat (first page) and con, new sources
\* and edges are written and the children are queued; the transaction of the
\* source commits
CrawlSource(cat, con) ==
    /\ cpc = "run"
    /\ cqueue # <<>>
    /\ LET s == Head(cqueue)[1]
           d == Head(cqueue)[2]
           matched == category_selectors(ckind, cat)
           content == ContentUrls(matched, con, d)
           children == CategoryUrls(matched, d) \ visited
       IN IF ckind = "rescan" /\ s \notin selectors
          THEN /\ cqueue' = Tail(cqueue)
               /\ UNCHANGED <<sources, hier, visited, new_links,
                              existing_links, cpage, selectors, clog, cdone>>
          ELSE /\ existing_links' =
                      existing_links \cup (content \cap existing_db_links)
               /\ new_links' = new_links \cup (content \ existing_db_links)
               /\ visited' = visited \cup children
               /\ sources' = sources \cup children
               /\ hier' = AddChildren(hier, s, children)
               /\ cqueue' = Tail(cqueue) \o
                             [i \in 1..Cardinality(children) |->
                                 <<SetToSeq(children)[i], d + 1>>]
               /\ cpage' = [cat |-> matched, con |-> con,
                            children |-> children]
               /\ selectors' = IF ckind = "discover"
                               THEN selectors \cup {s} ELSE selectors
               /\ clog' = IF ckind = "discover" THEN clog + 1 ELSE clog
               /\ cdone' = cdone \cup {<<s, d>>}
    /\ UNCHANGED <<backend, xvars, jobs, cancelReq, qvars, evars, rvars, pvars, cpc,
                   ckind, cstatus, depth_limit, croots>>

\* lines 299, 138 and 323-338 with process_background_job lines 978-988: the
\* scraper raises, or (llm) the LLM call of discover returns an error, which
\* is logged; the transaction of this source is rolled back, the job is
\* marked failed; what earlier sources wrote is committed
CrawlFail(llm) ==
    /\ cpc = "run"
    /\ cqueue # <<>>
    /\ llm => ckind = "discover"
    /\ ckind = "rescan" => Head(cqueue)[1] \in selectors
    /\ clog' = IF llm THEN clog + 1 ELSE clog
    /\ cqueue' = <<>>
    /\ cpc' = "idle"
    /\ cstatus' = "failed"
    /\ UNCHANGED <<backend, xvars, jobs, cancelReq, qvars, evars, rvars, pvars,
                   sources, hier, visited, new_links, existing_links, cpage,
                   ckind, depth_limit, selectors, cdone, croots>>

\* lines 283-288 and 396-401: the poller has seen the job cancelling, the
\* loop is left and the job is marked canceled
CrawlCancel ==
    /\ cpc = "run"
    /\ cqueue' = <<>>
    /\ cpc' = "idle"
    /\ cstatus' = "canceled"
    /\ UNCHANGED <<backend, xvars, jobs, cancelReq, qvars, evars, rvars, pvars,
                   sources, hier, visited, new_links, existing_links, cpage,
                   ckind, depth_limit, selectors, clog, cdone, croots>>

\* lines 396-423 (529-549): the queue is empty, discover advances the
\* project status, the job is completed
CrawlFinish ==
    /\ cpc = "run"
    /\ cqueue = <<>>
    /\ cpc' = "idle"
    /\ cstatus' = "completed"
    /\ pstatus' = IF ckind = "discover" /\ pstatus = "search_params_generated"
                  THEN "selector_generated" ELSE pstatus
    /\ UNCHANGED <<backend, xvars, jobs, cancelReq, qvars, rvars, pvars,
                   links, hpc, pending_links, ltask, lres, flag,
                   batch_results, totals, apilog, entries,
                   sources, hier, cqueue, visited, new_links, existing_links,
                   cpage, ckind, depth_limit, selectors, clog, cdone, croots>>

\* DiscoverAndCrawlSourcesResult.selectors_generated of a completed job:
\* line 419 reports total_selectors_generated, one per logged call; line 545
\* reports 0
selectors_generated == IF ckind = "rescan" THEN 0 ELSE clog

InitCrawl ==
    /\ ExtrasIdle
    /\ late_calls = {}
    /\ QueueIdle
    /\ LimiterIdle
    /\ links = [l \in LinkIds |-> "absent"]
    /\ pstatus = "search_params_generated"
    /\ hpc = "idle"
    /\ pending_links = {}
    /\ ltask = [l \in LinkIds |-> "none"]
    /\ lres = [l \in LinkIds |-> "none"]
    /\ flag = FALSE
    /\ batch_results = {}
    /\ totals = NoTotals
    /\ apilog = [l \in LinkIds |-> NoLog]
    /\ entries = [l \in LinkIds |-> 0]
    /\ link_url \in {[l \in LinkIds |-> 0],
                     [l \in LinkIds |-> IF l = 1 THEN 1 ELSE 0]}
    /\ sources = {}
    /\ hier = [e \in Pages \X Pages |-> 0]
    /\ cpc = "idle"
    /\ cqueue = <<>>
    /\ visited = {}
    /\ new_links = {}
    /\ existing_links = {}
    /\ cpage = NoPage
    /\ ckind = "none"
    /\ cstatus = "none"
    /\ depth_limit \in 1..max_crawl_depth
    /\ selectors = {}
    /\ clog = 0
    /\ cdone = {}
    /\ croots = {}

NextCrawl ==
    \/ \E u \in Pages : AddSource(u)
    \/ \E kind \in {"discover", "rescan"}, source_ids \in Payloads :
          CrawlStart(kind, source_ids)
    \/ \E cat, con \in SUBSET Pages : CrawlSource(cat, con)
    \/ \E llm \in BOOLEAN : CrawlFail(llm)
    \/ CrawlCancel
    \/ CrawlFinish

SpecCrawl == InitCrawl /\ [][NextCrawl]_vars

\* one crawl job on a project that has the sources and the stored selectors
\* earlier jobs and the user left
InitCrawlJob ==
    /\ ExtrasIdle
    /\ late_calls = {}
    /\ QueueIdle
    /\ LimiterIdle
    /\ links = [l \in LinkIds |-> "absent"]
    /\ pstatus = "search_params_generated"
    /\ hpc = "idle"
    /\ pending_links = {}
    /\ ltask = [l \in LinkIds |-> "none"]
    /\ lres = [l \in LinkIds |-> "none"]
    /\ flag = FALSE
    /\ batch_results = {}
    /\ totals = NoTotals
    /\ apilog = [l \in LinkIds |-> NoLog]
    /\ entries = [l \in LinkIds |-> 0]
    /\ link_url \in {[l \in LinkIds |-> 0],
                     [l \in LinkIds |-> IF l = 1 THEN 1 ELSE 0]}
    /\ sources \in SUBSET Pages \ {{}}
    /\ selectors \in SUBSET sources
    /\ hier = [e \in Pages \X Pages |-> 0]
    /\ cpc = "idle"
    /\ cqueue = <<>>
    /\ visited = {}
    /\ new_links = {}
    /\ existing_links = {}
    /\ cpage = NoPage
    /\ ckind = "none"
    /\ cstatus = "none"
    /\ depth_limit \in 1..max_crawl_depth
    /\ clog = 0
    /\ cdone = {}
    /\ croots = {}

NextCrawlJob ==
    \/ /\ cstatus = "none"
       /\ \E kind \in {"discover", "rescan"}, source_ids \in Payloads :
             CrawlStart(kind, source_ids)
    \/ \E cat, con \in SUBSET Pages : CrawlSource(cat, con)
    \/ \E llm \in BOOLEAN : CrawlFail(llm)
    \/ CrawlCancel
    \/ CrawlFinish

SpecCrawlJob == InitCrawlJob /\ [][NextCrawlJob]_vars

\* one rescan_links job on such a project (rescan_links has no LLM call, so
\* only the scraper can fail it)
NextRescanJob ==
    \/ /\ cstatus = "none"
       /\ \E source_ids \in Payloads : CrawlStart("rescan", source_ids)
    \/ \E cat, con \in SUBSET Pages : CrawlSource(cat, con)
    \/ CrawlFail(FALSE)
    \/ CrawlCancel
    \/ CrawlFinish

SpecRescanJob == InitCrawlJob /\ [][NextRescanJob]_vars

----------------------------------------------------------------------------
(* SpecSse: controllers/sse.py, subscribers and publishers of project      *)
(* events                                                                  *)

\* the event of the n-th send_event_to_project call: its data carries the
\* project_id (line 74)
Event(p, n) == [project |-> p, n |-> n]

\* a publisher that puts the event on every queue of the registry
RecipientsAll(p) == UNION {sse_clients[q] : q \in Projects}

\* send_event_to_project lines 73, 80: the queues of the project
Recipients(p) == sse_clients[p]

\* the state of everything but the SSE registry
SseFrame ==
    UNCHANGED <<backend, jobs, cancelReq, qvars, evars, svars, wkvars,
                gen_calls, late_calls, yvars>>

\* subscribe_to_project_events lines 33-39: a new queue is registered
subscribe_to_project_events(c, p) ==
    /\ sub[c].pc = "none"
    /\ sse_clients' = [sse_clients EXCEPT ![p] = @ \cup {c}]
    /\ squeue' = [squeue EXCEPT ![c] = <<>>]
    /\ received' = [received EXCEPT ![c] = <<>>]
    /\ sub' = [sub EXCEPT ![c] = [pc |-> "open", project |-> p,
                                  since |-> Len(published)]]
    /\ UNCHANGED published
    /\ SseFrame

\* send_event_to_project lines 69-86: put_nowait on every queue of the
\* project; the queues are unbounded, QueueFull is never raised
send_event_to_project(p) ==
    /\ Len(published) < MaxEvents
    /\ published' = Append(published, p)
    /\ squeue' = [c \in Subscribers |->
                    IF c \in Recipients(p)
                    THEN Append(squeue[c], Event(p, Len(published) + 1))
                    ELSE squeue[c]]
    /\ UNCHANGED <<sse_clients, sub, received>>
    /\ SseFrame

\* event_generator lines 47-53: queue.get() returns, the event is yielded
SseYield(c) ==
    /\ sub[c].pc = "open"
    /\ squeue[c] # <<>>
    /\ received' = [received EXCEPT ![c] = Append(@, Head(squeue[c]))]
    /\ squeue' = [squeue EXCEPT ![c] = Tail(@)]
    /\ UNCHANGED <<sse_clients, sub, published>>
    /\ SseFrame

\* event_generator lines 57-64: the client disconnects, the queue is taken
\* out of the registry and dropped with what it holds
SseDisconnect(c) ==
    /\ sub[c].pc = "open"
    /\ sse_clients' = [sse_clients EXCEPT ![sub[c].project] = @ \ {c}]
    /\ sub' = [sub EXCEPT ![c] = NoSubscriber]
    /\ squeue' = [squeue EXCEPT ![c] = <<>>]
    /\ received' = [received EXCEPT ![c] = <<>>]
    /\ UNCHANGED published
    /\ SseFrame

InitSse ==
    /\ QueueIdle
    /\ EntriesIdle
    /\ ServicesIdle
    /\ SseIdle
    /\ WalkIdle
    /\ gen_calls = [p \in Projects |-> <<>>]
    /\ late_calls = {}
    /\ BatchIdle
    /\ HandlerIdle

NextSse ==
    \/ \E c \in Subscribers, p \in Projects : subscribe_to_project_events(c, p)
    \/ \E p \in Projects : send_event_to_project(p)
    \/ \E c \in Subscribers : SseYield(c)
    \/ \E c \in Subscribers : SseDisconnect(c)

SpecSse == InitSse /\ [][NextSse]_vars

----------------------------------------------------------------------------
(* SpecWalk: the pagination loop of _crawl_and_discover over the pages of  *)
(* one source (url 1)                                                      *)

\* lines 204-217: the url the loop goes on with after page u, whose
\* pagination link names nxt (0: no link or no selector); a link to the page
\* itself ends the walk
NextUrl(u, nxt) == IF nxt = 0 \/ nxt = u THEN 0 ELSE nxt

\* lines 134-140 and 204-217: one iteration, the page is fetched
WalkPage ==
    /\ current_url # 0
    /\ pages_crawled < max_pages_to_crawl
    /\ fetched' = Append(fetched, current_url)
    /\ pages_crawled' = pages_crawled + 1
    /\ current_url' = NextUrl(current_url, next_page[current_url])
    /\ UNCHANGED <<backend, jobs, cancelReq, qvars, evars, svars, ssevars,
                   gen_calls, late_calls, yvars, next_page, max_pages_to_crawl>>

\* a walk starts at the url of the source, on any site and page limit
InitWalk ==
    /\ QueueIdle
    /\ EntriesIdle
    /\ ServicesIdle
    /\ SseIdle
    /\ gen_calls = [p \in Projects |-> <<>>]
    /\ late_calls = {}
    /\ BatchIdle
    /\ HandlerIdle
    /\ next_page \in [Urls -> Urls \cup {0}]
    /\ max_pages_to_crawl \in 1..MaxPagesToCrawl
    /\ current_url = 1
    /\ pages_crawled = 0
    /\ fetched = <<>>

NextWalk == WalkPage

SpecWalk == InitWalk /\ [][NextWalk]_vars

----------------------------------------------------------------------------
(* Properties of the queue *)

InProgress(k) == {j \in JobIds : jobs[j].task_name = k
                                 /\ jobs[j].status = "in_progress"}

HasTask(j) == \E t \in TaskIds : tasks[t].job = j

\* in_progress jobs of kind k the worker has submitted to a handler
Submitted(k) == {j \in InProgress(k) : HasTask(j)}

Running(k) == {t \in TaskIds : tasks[t].pc = "run" /\ KindOf(t) = k}

C3_OneHandlerPerJob ==
    \A j \in JobIds : Cardinality({t \in TaskIds : tasks[t].job = j}) <= 1

AllowedTransitions ==
    {<<"absent", "pending">>, <<"pending", "in_progress">>,
     <<"in_progress", "completed">>, <<"in_progress", "failed">>,
     <<"in_progress", "cancelling">>, <<"cancelling", "canceled">>}

\* C4: over worker, handler and cancel-endpoint operations a job's status
\* changes only along pending -> in_progress, in_progress -> completed,
\* in_progress -> failed, in_progress -> cancelling, cancelling -> canceled.
C4_OnlySpecTransitions ==
    [][recovered' = recovered =>
         \A j \in JobIds :
            jobs'[j].status # jobs[j].status =>
               <<jobs[j].status, jobs'[j].status>> \in AllowedTransitions]_vars

\* C5: for every task kind at most one handler of that kind is executing at
\* any time, also while the first job is in status cancelling.
C5_OneHandlerPerKind ==
    \A k \in TaskName : Cardinality(Running(k)) <= PARALLEL_LIMITS[k]

\* C6: once a job's status has been set to cancelling, its status changes
\* only to canceled (never to failed), also when the handler raises an
\* exception after the cancel request.
C6_CancellingEndsCanceled ==
    [][\A j \in JobIds :
          jobs[j].status = "cancelling" =>
             jobs'[j].status \in {"cancelling", "canceled"}]_vars

----------------------------------------------------------------------------
(* Properties of the claim *)

ReturnedTo(c) == callers[c].got \cup
                 (IF callers[c].pc = "returned" THEN {callers[c].ret} \ {0}
                  ELSE {})

\* C2: with concurrent callers of get_and_lock_pending_background_job, on
\* both backends, no job is returned to more than one caller and every
\* returned job is in_progress (no longer pending for any other claimer).
C2_DistinctClaims ==
    /\ \A c, d \in Callers : c # d => ReturnedTo(c) \cap ReturnedTo(d) = {}
    /\ \A c \in Callers : \A j \in ReturnedTo(c) : jobs[j].status = "in_progress"

----------------------------------------------------------------------------
(* Properties of process_project_entries *)

\* the result of link l has been written by _process_db_batch
Written(l) ==
    ltask[l] = "got" /\ lres[l] \in LinkResults /\ l \notin batch_results

\* provider.generate was called for link l and has returned
CallReturned(l) == lres[l] \in {"success", "skipped", "failed_log"}

\* C7: when a process_project_entries job ends with status canceled, no link
\* of its project is left in status processing: every link the job marked
\* processing and wrote no result for is back in pending.
C7_CanceledRevertsLinks ==
    (hpc = "done" /\ jobs[EJob].status = "canceled") =>
        \A l \in LinkIds :
            /\ links[l] # "processing"
            /\ (l \in pending_links /\ ~Written(l)) => links[l] = "pending"

\* C7 witness: the job ended canceled after the flag was set and a link it
\* had marked processing is pending again
C7_Witness ==
    /\ hpc = "done"
    /\ flag
    /\ jobs[EJob].status = "canceled"
    /\ \E l \in pending_links : ~Written(l) /\ links[l] = "pending"

\* C8: after the cancellation flag is set the job writes no further batch:
\* no LorebookEntry is created and no link is moved to completed, skipped or
\* failed.
C8_NoWriteAfterFlag ==
    [][flag =>
         /\ entries' = entries
         /\ \A l \in LinkIds :
               links'[l] \in {"completed", "skipped", "failed"} =>
                   links'[l] = links[l]]_vars

\* C9: every provider.generate call of a handler has exactly one
\* ApiRequestLog row once the handler has ended: a non-error row if the call
\* succeeded, an error row if it failed, none if no call was made.
C9_OneLogPerCall ==
    hpc = "done" =>
        \A l \in LinkIds :
            apilog[l] = CASE lres[l] \in {"success", "skipped"} ->
                                 [ok |-> 1, err |-> 0]
                          [] lres[l] = "failed_log" -> [ok |-> 0, err |-> 1]
                          [] OTHER -> NoLog

\* C10: when the job is canceled, every LLM call that was issued and has
\* returned has its ApiRequestLog row written.
C10_CanceledKeepsLogs ==
    (hpc = "done" /\ flag /\ jobs[EJob].status = "canceled") =>
        \A l \in LinkIds :
            CallReturned(l) => apilog[l].ok + apilog[l].err = 1

\* C11: for one project with limit N, whatever the number of concurrent
\* wait_for_rate_limit callers, no window of one minute contains more than N
\* admissions (it is enough to look at the windows that end now); with
\* N = 1 two consecutive admissions are at least one minute apart.
C11_AtMostNPerWindow ==
    \A p \in Projects :
        /\ Len(Recent(admitted[p], clock)) <= requests_per_minute(p)
        /\ requests_per_minute(p) = 1 =>
              \A i \in DOMAIN admitted[p] :
                  i > 1 => admitted[p][i] - admitted[p][i - 1] >= Window

\* C11 witness: the window of a project is full, a caller is sleeping with
\* the lock held and another caller waits for the lock
C11_Witness ==
    \E p \in Projects :
        /\ Len(admitted[p]) = requests_per_minute(p)
        /\ \E c \in Waiters : rl[c].pc = "sleep" /\ rl[c].project = p
        /\ \E c \in Waiters : rl[c].pc = "acquire" /\ rl[c].project = p

\* C12: startup recovery is finished before the worker performs its first
\* claim: no claim is made while recovery has not run, and recovery never
\* resets to pending a job that the worker of this process has claimed.
C12_RecoveryBeforeFirstClaim ==
    [][/\ (wjob = 0 /\ wjob' # 0) => recovered
       /\ (~recovered /\ recovered') =>
              \A j \in JobIds :
                  (jobs[j].status = "in_progress" /\ (wjob = j \/ HasTask(j)))
                      => jobs'[j].status = "in_progress"]_vars

\* C13: startup recovery sets every in_progress job and every processing
\* link to pending and changes no other job or link; running it again
\* changes nothing; and after it every job and link the previous process
\* left unfinished is pending, the status from which work resumes.
C13_RecoveryResumesAll ==
    [][(~recovered /\ recovered') =>
          /\ \A j \in JobIds :
                jobs'[j] = IF jobs[j].status = "in_progress"
                           THEN [jobs[j] EXCEPT !.status = "pending"]
                           ELSE jobs[j]
          /\ \A l \in LinkIds :
                links'[l] = IF links[l] = "processing" THEN "pending"
                            ELSE links[l]
          /\ reset_in_progress_jobs_to_pending(jobs') = jobs'
          /\ reset_processing_links_to_pending(links') = links'
          /\ \A j \in JobIds :
                jobs[j].status \in {"pending", "in_progress", "cancelling"}
                    => jobs'[j].status = "pending"
          /\ \A l \in LinkIds :
                links[l] \in {"pending", "processing"} => links'[l] = "pending"
      ]_vars

\* the link task of l ended with an error of the scraper or of the LLM call
LinkErrored(l) == lres[l] \in {"failed_log", "failed_nolog"}

\* C14: if scraping or the LLM call fails for a link during
\* process_project_entries (and the job is not cancelled), that link ends
\* failed, every other link is still processed, and the job ends completed,
\* not failed.
C14_LinkErrorsDoNotFailJob ==
    (hpc = "done" /\ ~flag /\ pending_links # {}
       /\ jobs[EJob].status \notin {"cancelling", "canceled"}) =>
        /\ jobs[EJob].status = "completed"
        /\ \A l \in pending_links :
              /\ LinkErrored(l) => links[l] = "failed"
              /\ lres[l] = "success" => links[l] = "completed" /\ entries[l] = 1
              /\ lres[l] = "skipped" => links[l] = "skipped"
              /\ lres[l] \in LinkResults

\* C14 witness: the job ended completed with one link failed and another
\* link, whose task returned after the failure was written, completed
C14_Witness ==
    /\ hpc = "done"
    /\ ~flag
    /\ jobs[EJob].status = "completed"
    /\ \E l, m \in pending_links :
          /\ LinkErrored(l) /\ links[l] = "failed"
          /\ lres[m] = "success" /\ links[m] = "completed"

\* the links the job picked up that are now in status st
EndedIn(st) == {l \in pending_links : links[l] = st}

\* C15: when a process_project_entries job ends completed, every link it
\* had marked processing is completed, skipped or failed; entries_created,
\* entries_skipped and entries_failed equal the numbers of links that ended
\* in those statuses and sum to the number of links picked up; the project
\* is completed if entries_failed = 0 and failed otherwise (no processable
\* link: zero counts, project completed).
C15_CompletedCountsMatch ==
    (hpc = "done" /\ jobs[EJob].status = "completed") =>
        /\ \A l \in pending_links :
              links[l] \in {"completed", "skipped", "failed"}
        /\ totals.created = Cardinality(EndedIn("completed"))
        /\ totals.skipped = Cardinality(EndedIn("skipped"))
        /\ totals.failed = Cardinality(EndedIn("failed"))
        /\ totals.created + totals.skipped + totals.failed
              = Cardinality(pending_links)
        /\ pstatus = IF totals.failed = 0 THEN "completed" ELSE "failed"

\* C15 witness: the job ended completed over several batches with an entry
\* created and a link failed, so the project is failed
C15_Witness ==
    /\ hpc = "done"
    /\ jobs[EJob].status = "completed"
    /\ Cardinality(pending_links) > DB_WRITE_BATCH_SIZE
    /\ totals.created > 0
    /\ totals.failed > 0
    /\ pstatus = "failed"

\* position of a project status in the order draft, search_params_generated,
\* selector_generated, links_extracted, processing, completed/failed
StatusRank(st) ==
    CASE st = "draft" -> 0
      [] st = "search_params_generated" -> 1
      [] st = "selector_generated" -> 2
      [] st = "links_extracted" -> 3
      [] st = "processing" -> 4
      [] OTHER -> 5

\* C16: over any sequence of job handlers run on a project, the project
\* status never moves backwards in the order draft, search_params_generated,
\* selector_generated, links_extracted, processing, completed/failed, except
\* for processing -> failed and failed -> processing.
C16_StatusMonotone ==
    [][\/ StatusRank(pstatus') >= StatusRank(pstatus)
       \/ <<pstatus, pstatus'>> \in {<<"processing", "failed">>,
                                     <<"failed", "processing">>}]_vars

\* the "Link" table after confirm_links has run on the present one with us
AfterConfirm(us) == create_links([url |-> link_url, status |-> links], us)

\* C17: running confirm_links twice with the same urls leaves the same Link
\* rows as running it once: the second run inserts no row, creates no
\* duplicate (project, url) and changes no existing link.
C17_ConfirmIdempotent ==
    /\ \A u \in Urls : Cardinality(RowsOf(link_url, u)) <= 1
    /\ \A us \in UrlLists :
          /\ create_links(AfterConfirm(us), us) = AfterConfirm(us)
          /\ \A l \in LinkIds :
                link_url[l] # 0 =>
                    /\ AfterConfirm(us).url[l] = link_url[l]
                    /\ AfterConfirm(us).status[l] = links[l]

\* C17 witness: the table holds two rows, the link of one url has been
\* processed, and confirming that url again (twice in one payload) leaves
\* the one row completed
C17_Witness ==
    /\ pstatus = "completed"
    /\ \E u \in Urls :
          /\ Cardinality(RowsOf(link_url, u)) = 1
          /\ \A l \in RowsOf(link_url, u) : links[l] = "completed"
          /\ create_links([url |-> link_url, status |-> links], <<u, u>>)
                = [url |-> link_url, status |-> links]
    /\ \E l, m \in LinkIds : l # m /\ link_url[l] # 0 /\ link_url[m] # 0

\* C18: in discover_and_crawl_sources a url matched on one page by a content
\* selector and by a category selector is treated as content: it is reported
\* in new_links or existing_links and is not turned into a child source.
C18_BothMatchedIsContent ==
    \A u \in cpage.cat \cap cpage.con :
        /\ u \in new_links \cup existing_links
        /\ u \notin cpage.children

\* the parent -> child edges
Edges == {e \in Pages \X Pages : hier[e] > 0}

\* the sources reachable from s over at most n edges
RECURSIVE ReachIn(_, _)
ReachIn(S, n) ==
    IF n = 0 THEN S
    ELSE ReachIn(S \cup {e[2] : e \in {x \in Edges : x[1] \in S}}, n - 1)

\* C19: after any sequence of discover_and_crawl_sources jobs on a project
\* (a later job may start from a source an earlier job found as a child),
\* the parent -> child edges contain no cycle and no duplicate pair.
C19_HierarchyAcyclic ==
    /\ \A e \in Pages \X Pages : hier[e] <= 1
    /\ \A s \in Pages :
          s \notin ReachIn({e[2] : e \in {x \in Edges : x[1] = s}}, MaxPages)

\* BackgroundJob.project_id: in the runs of the queue every job is of a
\* project of its own (the worker never reads the column)
project_id(j) == j

\* C20: two process_project_entries jobs of two different projects run
\* concurrently and neither blocks the other: when the worker has claimed
\* such a job and every running handler of that kind works for another
\* project, the job is submitted to its handler, not put back.
C20_ProjectsDoNotBlock ==
    [][(/\ wpc = "claimed"
        /\ wpc' # "claimed"
        /\ jobs[wjob].task_name = "process_project_entries"
        /\ \A t \in Running("process_project_entries") :
               project_id(tasks[t].job) # project_id(wjob))
          => \E t \in DOMAIN tasks' : tasks'[t].job = wjob]_vars

\* C21: when the scraper or the selector LLM call fails for a source of a
\* discover_and_crawl_sources job, the job ends failed, the project status is
\* left as it was, and nothing the run wrote stays committed: no source is
\* left processed with stored selectors, child sources or edges.
C21_FailedDiscoverPersistsNothing ==
    [][(ckind = "discover" /\ cpc = "run" /\ cstatus' = "failed")
          => /\ pstatus' = pstatus
             /\ cdone' = {}]_vars

\* C22: no step of a rescan_links job writes an ApiRequestLog row, a
\* ProjectSource row, a hierarchy edge or a Link row, and a completed rescan
\* reports selectors_generated = 0.
C22_RescanWritesNothing ==
    [][(ckind' = "rescan" /\ (cpc = "run" \/ cpc' = "run"))
          => /\ clog' = 0
             /\ sources' = sources
             /\ hier' = hier
             /\ link_url' = link_url
             /\ cstatus' = "completed" => selectors_generated' = 0]_vars

\* a rescan has completed after crawling a source with stored selectors
\* above the depth limit, and found links
C22_Witness ==
    /\ ckind = "rescan"
    /\ cstatus = "completed"
    /\ depth_limit > 1
    /\ cdone # {}
    /\ new_links # {}
    /\ sources # croots

\* the sources a job has processed
Processed == {e[1] : e \in cdone}

\* C30: in a discover_and_crawl_sources job the roots are processed at depth
\* 1; every other source is processed one level below a parent that was
\* processed at a depth under the limit D and has an edge to it; nothing is
\* processed or queued at a depth above D; and with D = 1 a completed job has
\* processed exactly its roots, with one LLM call each.
C30_DepthBounded ==
    ckind = "discover" =>
       /\ \A e \in cdone :
             /\ e[2] <= depth_limit
             /\ e[1] \in croots => e[2] = 1
             /\ e[1] \notin croots =>
                   \E p \in cdone : /\ p[2] + 1 = e[2]
                                    /\ p[2] < depth_limit
                                    /\ hier[<<p[1], e[1]>>] > 0
       /\ \A i \in 1..Len(cqueue) : cqueue[i][2] <= depth_limit
       /\ (depth_limit = 1 /\ cstatus = "completed") =>
             /\ Processed = croots
             /\ clog = Cardinality(croots)

\* the link tasks that have passed the second flag check and have not yet
\* returned from _process_single_link_io: their LLM call is still to begin
\* or to return
LlmPending == {l \in LinkIds : ltask[l] \in {"io", "gen"}}

\* C24 as stated: after the cancel endpoint has set a process_project_entries
\* job cancelling, at most one LLM call per semaphore slot begins or returns.
C24_OnePerSlotAfterRequest == Cardinality(late_calls) <= CONCURRENT_REQUESTS

\* C24, amended: once the poller has set the cancellation flag no further
\* link task gets past the second check, so the only LLM calls that still
\* begin or return are those of the tasks already in
\* _process_single_link_io, at most one per semaphore slot.
C24_OnePerSlotAfterFlag ==
    [][flag => /\ LlmPending' \subseteq LlmPending
               /\ Cardinality(LlmPending) <= CONCURRENT_REQUESTS]_vars

\* the flag is set, every slot had a call that began or returned after the
\* request, and a task was stopped by a flag check
C24_Witness ==
    /\ flag
    /\ Cardinality(late_calls) = CONCURRENT_REQUESTS
    /\ \E l \in pending_links : lres[l] = "None"
    /\ \E l \in late_calls : lres[l] \in {"success", "skipped", "failed_log"}

\* C27: a link task of process_project_entries that is still waiting for the
\* semaphore when the cancellation flag is set returns without acquiring the
\* semaphore and without calling wait_for_rate_limit.
C27_NoAcquireAfterFlag ==
    [][\A l \in LinkIds :
          (flag /\ ltask[l] = "waitsem") => ltask'[l] \in {"waitsem", "ret"}]_vars

\* the events published for project p after the first n calls, in call order
EventsSince(p, n) ==
    SelectSeq([k \in 1..Len(published) |-> Event(published[k], k)],
              LAMBDA e : e.project = p /\ e.n > n)

\* C23: what a registered subscriber has received, followed by what waits in
\* its queue, is the sequence of the events published for its project since
\* it registered, in publish order: each once, none of another project.
C23_OrderedOncePerProject ==
    \A c \in Subscribers :
        sub[c].pc = "open" =>
            received[c] \o squeue[c] = EventsSince(sub[c].project, sub[c].since)

\* a subscriber has received two events of its project although an event of
\* another project, which has a subscriber too, was published in between
C23_Witness ==
    \E c, o \in Subscribers :
        /\ sub[c].pc = "open" /\ sub[o].pc = "open"
        /\ sub[c].project # sub[o].project
        /\ Len(received[c]) = 2
        /\ received[c][1].n + 1 < received[c][2].n
        /\ received[o] # <<>>

\* C29: the pagination walk of one source fetches at most max_pages_to_crawl
\* pages and no page twice, also when the next links form a cycle.
C29_NoPageFetchedTwice ==
    /\ Len(fetched) <= max_pages_to_crawl
    /\ \A i, j \in 1..Len(fetched) : i # j => fetched[i] # fetched[j]

\* C28: every provider.generate call of a handler follows an admission of
\* its own by the project's rate limiter, so the LLM calls of one project
\* within one window, whichever handler makes them, are at most
\* requests_per_minute.
C28_EveryCallAdmitted ==
    \A p \in Projects :
        /\ gen_calls[p] = <<>>
        /\ Len(admitted[p]) + Len(Recent(gen_calls[p], clock))
              <= requests_per_minute(p)

\* C25: every job whose status becomes cancelling eventually has the status
\* canceled, whatever its kind and however far its handler is.
C25_CancellingLeadsToCanceled ==
    \A j \in JobIds :
        (jobs[j].status = "cancelling") ~> (jobs[j].status = "canceled")

\* C26: when the handler task the worker started for a job has returned, the
\* job is no longer in_progress, whatever kind of job the controllers
\* enqueued.
C26_ReturnedHandlerLeavesNoInProgress ==
    \A t \in TaskIds :
        tasks[t].pc = "done" => jobs[tasks[t].job].status # "in_progress"

\* C34: once a job's status is completed, failed or canceled it never changes
\* again: no step of the cancel endpoint, the worker or a running handler
\* writes another status over a terminal one.
C34_TerminalStatusIsFinal ==
    [][\A j \in JobIds :
          (Exists(jobs, j) /\ jobs[j].status \in Terminal)
              => jobs'[j].status = jobs[j].status]_vars

\* C35: a job the cancel endpoint has set to cancelling or canceled is never
\* put back to pending, so it is never claimed and run afterwards.
C35_AcceptedCancelNotUndone ==
    [][\A j \in JobIds :
          (Exists(jobs, j) /\ jobs[j].status \in {"cancelling", "canceled"})
              => jobs'[j].status # "pending"]_vars


\* job j is pending, no job of its kind is claimed or running, and the pool
\* has a free slot (worker.py:51)
Startable(j) ==
    /\ jobs[j].status = "pending"
    /\ ~HasTask(j)
    /\ InProgress(jobs[j].task_name) = {}
    /\ Running(jobs[j].task_name) = {}
    /\ Cardinality({t \in TaskIds : tasks[t].pc = "run"}) < max_workers
    /\ Len(tasks) < MaxTasks

C37_NoOrphanAfterWorkerError ==
    \A j \in JobIds :
        (jobs[j].status = "in_progress" /\ ~HasTask(j)) => wjob = j


\* nothing of the batch is in the database
NothingPersisted ==
    \A l \in BatchLinks :
        links[l] = "processing" /\ entries[l] = 0 /\ apilog[l] = NoLog

\* every result of the batch is in the database
AllPersisted ==
    \A i \in DOMAIN bseq :
        /\ links[bseq[i].link] = LinkStatusFor(bseq[i].res)
        /\ entries[bseq[i].link] = (IF bseq[i].res = "success" THEN 1 ELSE 0)
        /\ apilog[bseq[i].link] = LogAfter(NoLog, bseq[i].res)

\* C32: a write batch is committed all together or not at all, on both
\* backends: after a call of _process_db_batch that raised, none of its API
\* logs, entries and link updates is persisted, and after a call that
\* returned all of them are.
C32_BatchAllOrNothing ==
    /\ bpc = "failed" => NothingPersisted
    /\ bpc = "done" => AllPersisted


\* C33 as stated: processed_items always equals the number of links whose
\* result has been written, never exceeds total_items, and a completed job
\* has processed_items = total_items and progress = 100.
C33_ProcessedEqualsWritten ==
    /\ prow.processed_items = Cardinality(WrittenLinks)
    /\ prow.processed_items <= prow.total_items
    /\ jobs[EJob].status = "completed" =>
          prow.processed_items = prow.total_items /\ prow.progress = 100

\* C33: processed_items and progress change only in the handler's first
\* transaction and in the progress update that follows a committed batch;
\* processed_items never decreases, never exceeds total_items nor the number
\* of links whose result has been written, and equals that number once the
\* progress update of the batch has been written; a completed job has
\* processed_items = total_items and progress = 100.
C33_ProgressAtBatchBoundaries ==
    [][/\ prow' # prow => hpc \in {"start", "progress"}
       /\ hpc = "progress" /\ hpc' # "progress" =>
             prow'.processed_items = Cardinality(WrittenLinks')
       /\ prow'.processed_items >= prow.processed_items
       /\ prow'.processed_items <= prow'.total_items
       /\ prow'.processed_items <= Cardinality(WrittenLinks')
       /\ jobs'[EJob].status = "completed" =>
             prow'.processed_items = prow'.total_items /\ prow'.progress = 100
      ]_vars

\* a run in its second batch: the first batch is written and counted, a
\* result of the next one has been harvested
C33_Witness ==
    /\ hpc = "io"
    /\ prow.processed_items = DB_WRITE_BATCH_SIZE
    /\ prow.processed_items < prow.total_items
    /\ prow.processed_items = Cardinality(WrittenLinks)
    /\ \E l \in pending_links : ltask[l] = "ret"


\* C39: whenever the process_project_entries job has reached a terminal
\* status and its handler has ended, the project's status is no longer
\* processing.
C39_ProjectLeavesProcessing ==
    (hpc = "done" /\ jobs[EJob].status \in Terminal) => pstatus # "processing"

\* C40: when the handler has ended and its job is terminal, its poller is not
\* alive and none of its link tasks is still running.
C40_NothingOutlivesHandler ==
    (hpc = "done" /\ jobs[EJob].status \in Terminal) =>
        /\ pollers = {}
        /\ \A l \in LinkIds : ltask[l] # "created"


\* C38: across the process_project_entries jobs of a project at most one
\* LorebookEntry is created per link.
C38_OneEntryPerLink == \A l \in LinkIds : entries[l] <= 1


\* C31: in a discover_and_crawl_sources job the selector LLM call is made at
\* most once per source: selectors_generated, the number of calls that
\* returned selectors, equals the number of distinct sources processed, also
\* when the payload names a source twice or a source has several parents.
C31_OneCallPerSource ==
    (ckind = "discover" /\ cstatus # "failed") =>
        selectors_generated = Cardinality(Processed)

====
